---- MODULE Spec2Model ----
(***************************************************************************)
(* Timeline placement engine of the video editor: the drop pipeline of     *)
(* timeline-grid.jsx (handleDrop), the project store operations it calls,  *)
(* and the media metadata probe (getVideoMetadataFromUrl).                 *)
(*                                                                         *)
(* Times are milliseconds unless a name ends in Sec.                       *)
(***************************************************************************)
EXTENDS Integers, Sequences, FiniteSets, TLC

(***************************************************************************)
(* Bounds of the model.                                                    *)
(***************************************************************************)
MaxDropped == 3        \* files dropped in one run, over all its drops
MaxAudioFiles == 2     \* audio files of one drop whose duration is followed
MaxDedRow == 1         \* largest row index the store may have reserved for a kind

(***************************************************************************)
(* Values.                                                                 *)
(***************************************************************************)
NoDur == -1            \* uploadResult.duration is not a number
NoRow == -1            \* no row chosen yet
ServerDurationsSec == {7}          \* durations (s) a server reports
VideoProbeSec == {4}               \* durations (s) the probe obtains for a dropped video
ElementDurationsSec == {0, 2, 4}   \* video.duration (s) as the element reports it; 0: NaN
AudioProbeSec == {0, 3}            \* audio.duration || 0 as resolved by getAudioDurationSeconds

Max2(a, b) == IF a >= b THEN a ELSE b

\* the entries a drop's file list may hold; mime is the prefix class of
\* file.type, ext the class of the file name's extension, valid the answer of
\* validateFile(file, 'All').ok, detected the answer of detectCategory(file)
DroppedFiles ==
  { [mime |-> "image", ext |-> "image", valid |-> TRUE,  detected |-> "image"],
    [mime |-> "video", ext |-> "video", valid |-> TRUE,  detected |-> "video"],
    [mime |-> "audio", ext |-> "audio", valid |-> TRUE,  detected |-> "audio"],
    [mime |-> "image", ext |-> "image", valid |-> TRUE,  detected |-> "text"],
    [mime |-> "image", ext |-> "image", valid |-> FALSE, detected |-> "image"],
    [mime |-> "other", ext |-> "none",  valid |-> TRUE,  detected |-> "null"],
    [mime |-> "malformed", ext |-> "none", valid |-> FALSE, detected |-> "null"] }

\* file lists of 0..n entries
RECURSIVE FileLists(_)
FileLists(n) ==
  IF n = 0 THEN {<< >>}
  ELSE LET shorter == FileLists(n - 1)
       IN shorter \cup { Append(l, f) : l \in {s \in shorter : Len(s) = n - 1}, f \in DroppedFiles }

AllFileLists == FileLists(MaxDropped) \ {<< >>}

(***************************************************************************)
(* State.                                                                  *)
(***************************************************************************)
VARIABLES
  \* project store
  maxRows,        \* store.maxRows
  overlays,       \* the overlays the store holds, in creation order
  dedVideoRow,    \* row the store remembers for video
  dedAudioRow,    \* row the store remembers for audio
  dedImageRow,    \* row the store remembers for image
  refreshes,      \* calls of store.refreshElements()
  \* one run of handleDrop
  pc,             \* where the handler is suspended
  accepted,       \* accepted files not yet taken by the loop
  batchNo,        \* drops handled so far
  dropped,        \* files dropped so far
  intake,         \* what the current drop held and what the project was when it arrived
  fileNo,         \* index of the current file among the accepted ones
  cur,            \* locals of the current loop iteration
  log,            \* per accepted file of this drop, the toasts it raised
  last,           \* the locals of the iteration that ended last
  inflight,       \* uploadFile calls awaiting their result
  batchToasts,    \* batch-level toasts of this drop
  \* one run of getVideoMetadataFromUrl
  probe,          \* the probe's closure state and its video element
  \* ghost interaction state and the document-level listeners
  ghostState,     \* store.ghostState
  ghostEvent,     \* the event the listeners handled last, with the flags it found
  \* areTypesCompatible
  compat,         \* the pair of kinds asked about and the answer
  \* one useUploadProgress hook
  hook,           \* its React state, its controller ref and its running uploads
  \* TimelineRuler
  ruler,          \* the inputs of the last render and its rulerMarkers
  \* the runs of getAudioDurationSeconds and the durations taken from them
  audioProbe      \* per audio file: the promise, the audio element, the timer, durationMs

storeVars == <<maxRows, overlays, dedVideoRow, dedAudioRow, dedImageRow, refreshes>>
dropVars == <<pc, accepted, batchNo, dropped, intake, fileNo, cur, log, last, inflight, batchToasts>>
probeVars == <<probe>>
restVars == <<ghostState, ghostEvent, compat, hook, ruler, audioProbe>>
vars == <<storeVars, dropVars, probeVars, restVars>>

(***************************************************************************)
(* Project store (mobx store; its code is not part of the component):      *)
(* modelled from the operations the pipeline consumes.                     *)
(***************************************************************************)
InitialMaxRows == 1          \* an empty project has one row
ImageDurationMs == 5000      \* the store's fixed duration of a placed image

End(o) == o.start + o.dur

\* the overlays of a sequence, as a set
Range(ovs) == { ovs[i] : i \in DOMAIN ovs }

\* the latest end among the overlays of S, 0 when there is none
LastEnd(S) ==
  LET ends == { End(o) : o \in S }
  IN IF ends = {} THEN 0 ELSE CHOOSE m \in ends : \A x \in ends : x <= m

IsVideo(o) == o.kind = "video"
IsAudio(o) == o.kind = "audio"

getLastVideoEndTimeOf(ovs) == LastEnd({ o \in Range(ovs) : IsVideo(o) })
getLastAudioEndTimeOf(ovs) == LastEnd({ o \in Range(ovs) : IsAudio(o) })
getLastImageEndTimeOf(ovs, row) ==
  LastEnd({ o \in Range(ovs) : o.kind = "image" /\ o.row = row })

getLastVideoEndTime == getLastVideoEndTimeOf(overlays)
getLastAudioEndTime == getLastAudioEndTimeOf(overlays)
getLastImageEndTime(row) == getLastImageEndTimeOf(overlays, row)

getDedicatedVideoTrackRow == dedVideoRow
getDedicatedAudioTrackRow == dedAudioRow
getDedicatedImageTrackRow == dedImageRow

\* the overlay a successful creation adds; batch and file say which dropped
\* file it was created for, comp marks the audio extracted from a video
NewOverlay(kind, row, start, dur, comp) ==
  [kind |-> kind, row |-> row, start |-> start, dur |-> dur,
   batch |-> batchNo, file |-> fileNo, comp |-> comp]

addImageLocal(row, startTime) ==
  Append(overlays, NewOverlay("image", row, startTime, ImageDurationMs, FALSE))
addExistingAudio(row, startTime, durationMs, comp) ==
  Append(overlays, NewOverlay("audio", row, startTime, durationMs, comp))
handleVideoUploadFromUrl(row, startTime, duration) ==
  Append(overlays, NewOverlay("video", row, startTime, duration, FALSE))

(***************************************************************************)
(* handleDrop: pure helpers.                                               *)
(***************************************************************************)
isMediaMime(file) == file.mime \in {"audio", "video", "image"}
\* the extension list of the filter has no flv
isMediaExt(file) == file.ext \in {"audio", "video", "image"}
IsMediaFile_Any(file) == TRUE

IsMediaFile(file) == isMediaMime(file) \/ isMediaExt(file)

inferUploadCategory(file) ==
  IF file.mime \in {"image", "video", "audio"} THEN file.mime
  ELSE IF file.ext = "image" THEN "image"
  ELSE IF file.ext \in {"video", "flv"} THEN "video"
  ELSE IF file.ext = "audio" THEN "audio"
  ELSE "null"

\* (detectCategory(file) || inferUploadCategory(file) || '').toLowerCase()
LogicalType(file) ==
  LET category == IF file.detected # "null" THEN file.detected ELSE inferUploadCategory(file)
  IN IF category = "null" THEN "" ELSE category

UploadType(logicalType) ==
  IF logicalType \in {"image", "animation"} THEN "image"
  ELSE IF logicalType = "video" THEN "video"
  ELSE IF logicalType = "audio" THEN "audio"
  ELSE "null"

IsValid(file) == file.valid
IsInvalid(file) == ~file.valid
IsMalformed(file) == file.mime = "malformed"

\* locals of one loop iteration; failed names the call that rejected
\* ("upload", "create", "companion"), toasts the toasts the iteration raised
CurNone ==
  [type |-> "null", upload |-> "none", upDur |-> NoDur, probePath |-> "none",
   durationMs |-> 0, hasAudio |-> FALSE, row |-> NoRow, audioRow |-> NoRow,
   startTime |-> 0, seen |-> 0, failed |-> "none", toasts |-> << >>]

\* variant: the end time is taken once, when the drop arrives
FromEarlierDrop(o) == o.batch < batchNo
lastVideoEnd_AtDropTime == getLastVideoEndTimeOf(SelectSeq(overlays, FromEarlierDrop))

\* const lastVideoEnd = () => store.getLastVideoEndTime()
lastVideoEnd == getLastVideoEndTime
\* const lastAudioEnd = () => store.getLastAudioEndTime()
lastAudioEnd == getLastAudioEndTime


(***************************************************************************)
(* getVideoMetadataFromUrl: the result it resolves with.                   *)
(***************************************************************************)
DefaultDurationMs == 10000
DefaultMeta == [durationMs |-> DefaultDurationMs, hasAudio |-> FALSE]

\* a video element as the probe reads it: duration in s (0: NaN or not known),
\* readyState, mozHasAudio, webkitAudioDecodedByteCount (-1: not a number),
\* audioTracks.length (-1: no audioTracks)
VideoElement(duration, readyState, moz, bytes, tracks) ==
  [duration |-> duration, readyState |-> readyState, mozHasAudio |-> moz,
   webkitBytes |-> bytes, audioTracks |-> tracks]

\* variant: without the fallback that assumes audio when a duration is known
DetectedMeta_NoFallback(video) ==
  [durationMs |-> IF video.duration > 0 THEN video.duration * 1000 ELSE DefaultDurationMs,
   hasAudio |-> \/ video.mozHasAudio \/ video.webkitBytes > 0 \/ video.audioTracks > 0]

\* the object detectAudioAndResolve resolves with
DetectedMeta(video) ==
  LET durationSec == video.duration
      mozHasAudio == video.mozHasAudio
      webkitHasAudio == video.webkitBytes > 0
      hasAudioTracks == video.audioTracks > 0
      audioContextCheck ==
        video.readyState >= 2 /\ (video.audioTracks > 0 \/ video.mozHasAudio \/ video.webkitBytes > 0)
      detectedAudio == mozHasAudio \/ webkitHasAudio \/ hasAudioTracks \/ audioContextCheck
  IN [durationMs |-> IF durationSec > 0 THEN durationSec * 1000 ELSE DefaultDurationMs,
      hasAudio |-> detectedAudio \/ (~detectedAudio /\ durationSec > 0)]

\* what one call of the probe gives the pipeline: path says how it resolved
\* ("error", "timeout" or "loaded"); the promise has no way to reject
ProbeRuns ==
  { [path |-> p, rejected |-> FALSE, meta |-> DefaultMeta] : p \in {"error", "timeout"} }
  \cup
  { [path |-> "loaded", rejected |-> FALSE,
     meta |-> DetectedMeta(VideoElement(d, 1, FALSE, b, -1))] :
       d \in VideoProbeSec, b \in {-1, 0, 1} }

(***************************************************************************)
(* getVideoMetadataFromUrl: the promise executor, its callbacks and the    *)
(* video element they listen to.                                           *)
(***************************************************************************)
NoMeta == [durationMs |-> 0, hasAudio |-> FALSE]

\* the probe before it is called
ProbeUnused ==
  [state |-> "unused", url |-> "none", promise |-> "pending", result |-> NoMeta,
   path |-> "none", resolved |-> FALSE,
   video |-> VideoElement(0, 0, FALSE, -1, -1),
   listeners |-> {}, timeoutPending |-> FALSE, timeoutFired |-> FALSE,
   waitTimers |-> 0, recheckTimers |-> 0, removeTimers |-> 0, inDom |-> FALSE,
   passes |-> 0, seenVideo |-> VideoElement(0, 0, FALSE, -1, -1)]

\* resolve(meta): the first settlement of the promise wins
Resolve(p, meta, path) ==
  IF p.promise = "pending"
  THEN [p EXCEPT !.promise = "resolved", !.result = meta, !.path = path]
  ELSE p

\* lines 916-930
cleanup(p) ==
  IF p.resolved THEN p
  ELSE [p EXCEPT !.resolved = TRUE, !.listeners = {},
                 !.video = VideoElement(0, 0, FALSE, p.video.webkitBytes, p.video.audioTracks),
                 !.removeTimers = p.removeTimers + 1]

clearTimeoutId(p) == [p EXCEPT !.timeoutPending = FALSE]

\* variant: the timeout only gives up when no metadata has arrived
onTimeout_OnlyWithoutMetadata(p) ==
  IF ~p.resolved /\ "loadedmetadata" \in p.listeners
  THEN Resolve(cleanup(p), DefaultMeta, "timeout")
  ELSE p

\* lines 932-937: the callback of the timeout
onTimeout(p) ==
  IF ~p.resolved THEN Resolve(cleanup(p), DefaultMeta, "timeout") ELSE p

\* lines 939-998
detectAudioAndResolve(p) ==
  IF p.resolved THEN p
  ELSE LET meta == DetectedMeta(p.video)
           q == cleanup(clearTimeoutId(p))
       IN Resolve([q EXCEPT !.passes = p.passes + 1, !.seenVideo = p.video], meta, "detect")

\* lines 1000-1034
onLoaded(p) ==
  IF p.resolved THEN p
  ELSE IF ~(p.video.duration > 0)
       THEN [p EXCEPT !.waitTimers = p.waitTimers + 1]
       ELSE LET q == detectAudioAndResolve(p)
            IN [q EXCEPT !.recheckTimers = q.recheckTimers + 1]

\* lines 1006-1010: the callback of the 100 ms wait for a duration
onWaitTimer(p) ==
  IF ~p.resolved /\ p.video.duration > 0 THEN detectAudioAndResolve(p) ELSE p

\* lines 1020-1024, 1028-1032: the callback of the 300 / 200 ms re-check
onRecheckTimer(p) ==
  IF ~p.resolved /\ p.video.readyState >= 2 THEN detectAudioAndResolve(p) ELSE p

\* lines 1036-1041
onCanPlayThrough(p) ==
  IF ~p.resolved /\ p.video.readyState >= 2 THEN onLoaded(p) ELSE p

\* lines 1043-1053
onError(p) ==
  IF p.resolved THEN p
  ELSE Resolve(cleanup(clearTimeoutId(p)), DefaultMeta, "error")

\* what the browser's video element starts with: byte counter and track
\* list exist or not, by engine
ProbeUrls == {"empty", "blob", "data", "remote", "unusable"}

\* lines 902-1086: the executor. An empty url resolves at once; an url whose
\* source cannot be set ("unusable") resolves in the catch at the end
ProbeStart(url, bytes, tracks) ==
  /\ probe.state = "unused"
  /\ IF url = "empty"
     THEN probe' = Resolve([ProbeUnused EXCEPT !.state = "called", !.url = url],
                           DefaultMeta, "empty")
     ELSE LET p == [ProbeUnused EXCEPT !.state = "called", !.url = url,
                      !.video = VideoElement(0, 0, FALSE, bytes, tracks),
                      !.timeoutPending = TRUE,
                      !.listeners = {"loadedmetadata", "canplaythrough", "error"},
                      !.inDom = TRUE]
          IN probe' = IF url = "unusable"
                      THEN Resolve(cleanup(clearTimeoutId(p)), DefaultMeta, "source")
                      ELSE p
  /\ UNCHANGED <<storeVars, dropVars, restVars>>

Loading == probe.state = "called" /\ probe.url \notin {"empty", "unusable"} /\ ~probe.resolved

\* the element learns (or changes) its duration
DurationKnown(d) ==
  /\ Loading
  /\ probe.video.duration # d
  /\ probe' = [probe EXCEPT !.video.duration = d]
  /\ UNCHANGED <<storeVars, dropVars, restVars>>

\* the element's readyState grows
ReadyStateGrows(r) ==
  /\ Loading
  /\ r > probe.video.readyState
  /\ probe' = [probe EXCEPT !.video.readyState = r]
  /\ UNCHANGED <<storeVars, dropVars, restVars>>

\* an audio signal of the element appears
AudioSignal(which) ==
  /\ Loading
  /\ \/ /\ which = "moz" /\ ~probe.video.mozHasAudio
        /\ probe' = [probe EXCEPT !.video.mozHasAudio = TRUE]
     \/ /\ which = "webkit" /\ probe.video.webkitBytes = 0
        /\ probe' = [probe EXCEPT !.video.webkitBytes = 1]
     \/ /\ which = "tracks" /\ probe.video.audioTracks = 0
        /\ probe' = [probe EXCEPT !.video.audioTracks = 1]
  /\ UNCHANGED <<storeVars, dropVars, restVars>>

\* 'loadedmetadata' is dispatched to its once-listener
LoadedMetadata ==
  /\ Loading
  /\ "loadedmetadata" \in probe.listeners
  /\ LET p == [probe EXCEPT !.listeners = probe.listeners \ {"loadedmetadata"},
                            !.video.readyState = Max2(1, probe.video.readyState)]
     IN probe' = onLoaded(p)
  /\ UNCHANGED <<storeVars, dropVars, restVars>>

\* 'canplaythrough' is dispatched to its once-listener
CanPlayThrough ==
  /\ Loading
  /\ "canplaythrough" \in probe.listeners
  /\ LET p == [probe EXCEPT !.listeners = probe.listeners \ {"canplaythrough"},
                            !.video.readyState = 4]
     IN probe' = onCanPlayThrough(p)
  /\ UNCHANGED <<storeVars, dropVars, restVars>>

\* 'error' is dispatched to its once-listener
ErrorEvent ==
  /\ Loading
  /\ "error" \in probe.listeners
  /\ probe' = onError([probe EXCEPT !.listeners = probe.listeners \ {"error"}])
  /\ UNCHANGED <<storeVars, dropVars, restVars>>

\* the timeout set at line 932 expires
TimeoutFires ==
  /\ probe.timeoutPending
  /\ probe' = onTimeout([probe EXCEPT !.timeoutPending = FALSE, !.timeoutFired = TRUE])
  /\ UNCHANGED <<storeVars, dropVars, restVars>>

WaitTimerFires ==
  /\ probe.waitTimers > 0
  /\ probe' = onWaitTimer([probe EXCEPT !.waitTimers = probe.waitTimers - 1])
  /\ UNCHANGED <<storeVars, dropVars, restVars>>

RecheckTimerFires ==
  /\ probe.recheckTimers > 0
  /\ probe' = onRecheckTimer([probe EXCEPT !.recheckTimers = probe.recheckTimers - 1])
  /\ UNCHANGED <<storeVars, dropVars, restVars>>

\* lines 925-929: the element leaves the document
RemoveTimerFires ==
  /\ probe.removeTimers > 0
  /\ probe' = [probe EXCEPT !.removeTimers = probe.removeTimers - 1, !.inDom = FALSE]
  /\ UNCHANGED <<storeVars, dropVars, restVars>>

ProbeNext ==
  \/ \E url \in ProbeUrls, bytes \in {-1, 0}, tracks \in {-1, 0} : ProbeStart(url, bytes, tracks)
  \/ \E d \in ElementDurationsSec : DurationKnown(d)
  \/ \E r \in 1..4 : ReadyStateGrows(r)
  \/ \E which \in {"moz", "webkit", "tracks"} : AudioSignal(which)
  \/ LoadedMetadata
  \/ CanPlayThrough
  \/ ErrorEvent
  \/ TimeoutFires
  \/ WaitTimerFires
  \/ RecheckTimerFires
  \/ RemoveTimerFires

(***************************************************************************)
(* areTypesCompatible.                                                     *)
(***************************************************************************)
\* the overlay kinds of the policy table, and kinds outside it
Kinds == {"video", "audio", "image", "imageUrl", "text", "animation"}
OtherKinds == {"shape", "effect"}

videoTypes == {"video"}
audioTypes == {"audio"}
imageTypes == {"imageUrl", "image"}

\* variant: two overlays of one kind always go together
areTypesCompatible_SameKind(type1, type2) ==
  type1 = type2 \/ type1 = "animation" \/ type2 = "animation"

\* variant: the animation rule is tried before the text rule
areTypesCompatible_AnimationFirst(type1, type2) ==
  IF type1 = "animation" \/ type2 = "animation" THEN TRUE
  ELSE IF type1 = "text" \/ type2 = "text" THEN type1 = "text" /\ type2 = "text"
  ELSE type1 \in imageTypes /\ type2 \in imageTypes

\* lines 479-495
areTypesCompatible(type1, type2) ==
  IF type1 = "text" \/ type2 = "text" THEN type1 = "text" /\ type2 = "text"
  ELSE IF type1 = "animation" \/ type2 = "animation" THEN TRUE
  ELSE LET v1 == type1 \in videoTypes
           v2 == type2 \in videoTypes
           a1 == type1 \in audioTypes
           a2 == type2 \in audioTypes
           i1 == type1 \in imageTypes
           i2 == type2 \in imageTypes
       IN IF v1 /\ (a2 \/ i2) THEN FALSE
          ELSE IF v2 /\ (a1 \/ i1) THEN FALSE
          ELSE IF a1 /\ (v2 \/ i2) THEN FALSE
          ELSE IF a2 /\ (v1 \/ i1) THEN FALSE
          ELSE IF i1 /\ (v2 \/ a2) THEN FALSE
          ELSE IF i2 /\ (v1 \/ a1) THEN FALSE
          ELSE i1 /\ i2

\* no question asked yet
CompatNone == [type1 |-> "none", type2 |-> "none", answered |-> FALSE, result |-> FALSE]

\* a caller asks about a pair of kinds
AskCompatible(type1, type2) ==
  /\ compat' = [type1 |-> type1, type2 |-> type2, answered |-> FALSE, result |-> FALSE]
  /\ UNCHANGED <<storeVars, dropVars, probeVars, ghostState, ghostEvent, hook, ruler, audioProbe>>

\* the function returns
AnswerCompatible ==
  /\ compat.type1 # "none"
  /\ ~compat.answered
  /\ compat' = [compat EXCEPT !.answered = TRUE,
                              !.result = areTypesCompatible(compat.type1, compat.type2)]
  /\ UNCHANGED <<storeVars, dropVars, probeVars, ghostState, ghostEvent, hook, ruler, audioProbe>>

CompatNext ==
  \/ \E type1 \in Kinds \cup OtherKinds, type2 \in Kinds \cup OtherKinds : AskCompatible(type1, type2)
  \/ AnswerCompatible

(***************************************************************************)
(* Ghost interaction state (store.ghostState; the store's code is not part *)
(* of the component) and the document-level listeners of TimelineGrid.     *)
(* A ghost payload is {} when null and {g} when it holds the ghost g.      *)
(***************************************************************************)
GhostRows == 0..1
GhostLeft == 10
Ghost(row) == [left |-> GhostLeft, row |-> row]

\* the ghost state of a new session
GhostEmpty ==
  [isDragging |-> FALSE, ghostElement |-> {}, isIncompatibleRow |-> FALSE,
   isResizing |-> FALSE, resizeGhostElement |-> {},
   isMultiDragging |-> FALSE, multiGhostElements |-> << >>,
   isGalleryDragging |-> FALSE, galleryGhostElement |-> {},
   isFileDragging |-> FALSE, fileGhostElement |-> {},
   alignmentLines |-> << >>, ghostMarkerPosition |-> {}]

\* variant: one call ends one drag mode only, the file drag first
resetGhostState_OneMode(g) ==
  IF g.isFileDragging
  THEN [g EXCEPT !.isFileDragging = FALSE, !.fileGhostElement = {}, !.alignmentLines = << >>]
  ELSE IF g.isGalleryDragging
  THEN [g EXCEPT !.isGalleryDragging = FALSE, !.galleryGhostElement = {}, !.alignmentLines = << >>]
  ELSE [GhostEmpty EXCEPT !.ghostMarkerPosition = g.ghostMarkerPosition]

\* store.resetGhostState(): all flags false, all ghost objects null, lists
\* emptied; the hover marker is no part of a drag
resetGhostState(g) == [GhostEmpty EXCEPT !.ghostMarkerPosition = g.ghostMarkerPosition]

\* store.updateFileGhost(newPosition, targetRow, isIncompatible)
updateFileGhost(g, newPosition, targetRow, isIncompatible) ==
  [g EXCEPT !.fileGhostElement =
     {[left |-> newPosition, row |-> targetRow, isIncompatible |-> isIncompatible]}]

\* variant: outside the grid only the ghosts of element drags are hidden
handleGlobalMouseMove_PartialClear(g, grid, isOverGrid) ==
  IF ~grid \/ isOverGrid THEN g
  ELSE LET g1 == IF g.isDragging THEN [g EXCEPT !.ghostElement = {}] ELSE g
       IN IF g1.isMultiDragging THEN [g1 EXCEPT !.multiGhostElements = << >>] ELSE g1

\* variant: outside the grid an element drag is ended, flag and ghost
handleGlobalMouseMove_EndsDrag(g, grid, isOverGrid) ==
  IF ~grid \/ isOverGrid THEN g
  ELSE IF g.isFileDragging \/ g.isGalleryDragging
  THEN resetGhostState(g)
  ELSE LET g1 == IF g.isDragging
                 THEN [g EXCEPT !.ghostElement = {}, !.isDragging = FALSE] ELSE g
       IN IF g1.isMultiDragging
          THEN [g1 EXCEPT !.multiGhostElements = << >>, !.isMultiDragging = FALSE] ELSE g1

\* lines 334-363; grid: gridRef.current is set
handleGlobalMouseMove(g, grid, isOverGrid) ==
  IF ~grid THEN g
  ELSE IF ~isOverGrid
  THEN IF g.isFileDragging \/ g.isGalleryDragging
       THEN resetGhostState(g)
       ELSE LET g1 == IF g.isDragging THEN [g EXCEPT !.ghostElement = {}] ELSE g
            IN IF g1.isMultiDragging THEN [g1 EXCEPT !.multiGhostElements = << >>] ELSE g1
  ELSE g

\* lines 427-433: the kind of the dragged file, from the MIME class of item 0
targetElementType(fileType) ==
  IF fileType = "audio" THEN "audio"
  ELSE IF fileType = "video" THEN "video"
  ELSE "imageUrl"

\* variant: every occupied row is flagged
isIncompatible_AnyOccupant(rowType, fileType) == rowType # "none"

\* lines 436-441; rowType: rowOverlays[0]?.type, "none" when the row is empty
isIncompatible(rowType, fileType) ==
  rowType # "none" /\ ~areTypesCompatible(rowType, targetElementType(fileType))

\* lines 365-445; hasFiles: dataTransfer.types includes 'Files', overRow: the
\* target lies in a timeline row element
handleGlobalDragOver(g, grid, isOverGrid, hasFiles, overRow, targetRow, fileType, rowType) ==
  IF ~grid THEN g
  ELSE IF ~isOverGrid
  THEN IF g.isFileDragging \/ g.isGalleryDragging
       THEN resetGhostState(g)
       ELSE LET g1 == IF g.isDragging THEN [g EXCEPT !.ghostElement = {}] ELSE g
            IN IF g1.isMultiDragging THEN [g1 EXCEPT !.multiGhostElements = << >>] ELSE g1
  ELSE IF g.isFileDragging /\ hasFiles
  THEN IF overRow THEN g
       ELSE updateFileGhost(g, GhostLeft, targetRow, isIncompatible(rowType, fileType))
  ELSE g

\* lines 447-454; relatedTarget: the event has a related target
handleGlobalDragLeave(g, relatedTarget) ==
  IF ~relatedTarget
  THEN IF g.isFileDragging THEN resetGhostState(g) ELSE g
  ELSE g

\* variant: the drop listener looks at the file drag only
handleGlobalDrop_FileOnly(g) ==
  IF g.isFileDragging THEN resetGhostState(g) ELSE g

\* lines 456-463
handleGlobalDrop(g) ==
  IF g.isFileDragging \/ g.isGalleryDragging THEN resetGhostState(g) ELSE g

\* no event handled yet
NoGhostEvent ==
  [kind |-> "none", grid |-> TRUE, overGrid |-> TRUE, wasFile |-> FALSE, wasGallery |-> FALSE,
   resets |-> 0, once |-> {}, placement |-> "none", hover |-> {}]

\* consecutive full resets that are counted
MaxResets == 2

\* an event was handled and left the ghost state g2. It is remembered with the
\* flags it found, with how many full resets were made in a row up to it and
\* with the state the first of them left (once); always: the event resets
\* whatever it finds; hover: what a dragover over the grid carried during a
\* file drag
Handled(kind, grid, overGrid, g2, always, placement, hover) ==
  LET called == \/ always
                \/ /\ ghostState.isFileDragging \/ ghostState.isGalleryDragging
                   /\ g2 = resetGhostState(ghostState)
  IN /\ ghostState' = g2
     /\ ghostEvent' =
          [kind |-> kind, grid |-> grid, overGrid |-> overGrid,
           wasFile |-> ghostState.isFileDragging, wasGallery |-> ghostState.isGalleryDragging,
           resets |-> IF ~called THEN 0
                      ELSE IF ghostEvent.resets >= MaxResets THEN MaxResets
                      ELSE ghostEvent.resets + 1,
           once |-> IF ~called THEN {}
                    ELSE IF ghostEvent.resets = 0 THEN {g2} ELSE ghostEvent.once,
           placement |-> placement, hover |-> hover]
     /\ UNCHANGED <<storeVars, dropVars, probeVars, compat, hook, ruler, audioProbe>>

DragModes == {"dragging", "resizing", "multiDragging", "galleryDragging", "fileDragging"}

\* another interaction source starts a drag mode through the store; the
\* writers do not look at each other's flags (last writer wins)
StartInteraction(mode, incompatible) ==
  LET g == ghostState
      g2 == CASE mode = "dragging" ->
                   [g EXCEPT !.isDragging = TRUE, !.ghostElement = {Ghost(0)},
                             !.isIncompatibleRow = incompatible]
              [] mode = "resizing" ->
                   [g EXCEPT !.isResizing = TRUE,
                             !.resizeGhostElement = {[left |-> GhostLeft, row |-> 0, canPush |-> TRUE]}]
              [] mode = "multiDragging" ->
                   [g EXCEPT !.isMultiDragging = TRUE, !.multiGhostElements = <<Ghost(0)>>]
              [] mode = "galleryDragging" ->
                   [g EXCEPT !.isGalleryDragging = TRUE,
                             !.galleryGhostElement =
                               {[left |-> GhostLeft, row |-> 0, isIncompatible |-> incompatible]}]
              [] OTHER ->
                   [g EXCEPT !.isFileDragging = TRUE]
  IN Handled("start", TRUE, TRUE, g2, FALSE, "none", {})

\* the alignment lines are recomputed while a drag is active
AlignmentLinesUpdate ==
  /\ \/ ghostState.isDragging \/ ghostState.isResizing \/ ghostState.isMultiDragging
     \/ ghostState.isGalleryDragging \/ ghostState.isFileDragging
  /\ Handled("lines", TRUE, TRUE,
             [ghostState EXCEPT !.alignmentLines =
                <<[position |-> GhostLeft, type |-> "start-to-start", snapGuide |-> TRUE]>>],
             FALSE, "none", {})

\* the hover marker follows the pointer or is hidden
GhostMarkerMoves(shown) ==
  Handled("marker", TRUE, TRUE,
          [ghostState EXCEPT !.ghostMarkerPosition = IF shown THEN {GhostLeft} ELSE {}],
          FALSE, "none", {})

\* a drag ends at its source: the ghost state is cleared
DragEnd ==
  Handled("dragend", TRUE, TRUE, resetGhostState(ghostState), TRUE, "none", {})

\* document 'mousemove'
GlobalMouseMove(grid, isOverGrid) ==
  Handled("mousemove", grid, isOverGrid,
          handleGlobalMouseMove(ghostState, grid, isOverGrid), FALSE, "none", {})

\* document 'dragover'
GlobalDragOver(grid, isOverGrid, hasFiles, overRow, targetRow, fileType, rowType) ==
  Handled("dragover", grid, isOverGrid,
          handleGlobalDragOver(ghostState, grid, isOverGrid, hasFiles, overRow,
                               targetRow, fileType, rowType),
          FALSE, "none",
          IF grid /\ isOverGrid /\ ghostState.isFileDragging
          THEN {[hasFiles |-> hasFiles, overRow |-> overRow, targetRow |-> targetRow,
                 fileType |-> fileType, rowType |-> rowType]}
          ELSE {})

\* document 'dragleave'
GlobalDragLeave(relatedTarget) ==
  Handled("dragleave", TRUE, relatedTarget,
          handleGlobalDragLeave(ghostState, relatedTarget), FALSE, "none", {})

\* a 'drop' reaches the document. On its way it ran the grid's handleDrop when
\* it happened on the grid: placement is "none" when handleDrop did not run or
\* found no file, "rejected" when it accepted no file, "pending" when it is
\* suspended at an upload. handleDrop (lines 103-315) writes no ghost field
GlobalDrop(placement) ==
  Handled("drop", TRUE, TRUE, handleGlobalDrop(ghostState), FALSE, placement, {})

\* the suspended handleDrop of the last drop ends: "placed" or "failed"
DropSettles(outcome) ==
  /\ ghostEvent.kind = "drop"
  /\ ghostEvent.placement = "pending"
  /\ ghostEvent' = [ghostEvent EXCEPT !.placement = outcome]
  /\ UNCHANGED <<storeVars, dropVars, probeVars, ghostState, compat, hook, ruler, audioProbe>>

GhostNext ==
  \/ \E mode \in DragModes, incompatible \in BOOLEAN : StartInteraction(mode, incompatible)
  \/ AlignmentLinesUpdate
  \/ \E shown \in BOOLEAN : GhostMarkerMoves(shown)
  \/ DragEnd
  \/ \E grid \in BOOLEAN, isOverGrid \in BOOLEAN : GlobalMouseMove(grid, isOverGrid)
  \/ \E grid \in BOOLEAN, isOverGrid \in BOOLEAN, hasFiles \in BOOLEAN :
       /\ ~(grid /\ isOverGrid /\ hasFiles)
       /\ GlobalDragOver(grid, isOverGrid, hasFiles, FALSE, 0, "other", "none")
  \/ \E overRow \in BOOLEAN, targetRow \in GhostRows,
        fileType \in {"video", "other"}, rowType \in {"none", "video"} :
       GlobalDragOver(TRUE, TRUE, TRUE, overRow, targetRow, fileType, rowType)
  \/ \E relatedTarget \in BOOLEAN : GlobalDragLeave(relatedTarget)
  \/ \E placement \in {"none", "rejected", "pending"} : GlobalDrop(placement)
  \/ \E outcome \in {"placed", "failed"} : DropSettles(outcome)

\* the MIME classes of a dragged item: audio/, video/, image/, anything else
FileTypes == {"audio", "video", "image", "other"}

\* a file is dragged over the grid, above every kind of row, and dropped or
\* taken out of the grid again
FileGhostNext ==
  \/ StartInteraction("fileDragging", FALSE)
  \/ \E overRow \in BOOLEAN, targetRow \in GhostRows,
        fileType \in FileTypes, rowType \in Kinds \cup {"none"} :
       GlobalDragOver(TRUE, TRUE, TRUE, overRow, targetRow, fileType, rowType)
  \/ GlobalDragOver(TRUE, FALSE, TRUE, FALSE, 0, "other", "none")
  \/ \E placement \in {"none", "rejected", "pending"} : GlobalDrop(placement)

(***************************************************************************)
(* useUploadProgress.                                                      *)
(***************************************************************************)

\* upload() calls that may overlap
MaxUploads == 2

UploadIds == 1..MaxUploads

\* what axios rejects with when the request's signal is aborted
ErrCanceled ==
  [name |-> "CanceledError", message |-> "canceled", code |-> "ERR_CANCELED", isCancel |-> TRUE]

\* what axios rejects with otherwise: no connection, an error status, a timeout
FailureErrors ==
  { [name |-> "AxiosError", message |-> "Network Error", code |-> "ERR_NETWORK", isCancel |-> FALSE],
    [name |-> "AxiosError", message |-> "Request failed with status code 500",
     code |-> "ERR_BAD_RESPONSE", isCancel |-> FALSE],
    [name |-> "AxiosError", message |-> "timeout exceeded", code |-> "ECONNABORTED", isCancel |-> FALSE] }

isCanceled_AbortedCode(error) ==
  error.code \in {"ERR_CANCELED", "ECONNABORTED"}

isCanceled(error) ==
  \/ error.isCancel
  \/ error.name = "CanceledError"
  \/ error.message = "canceled"
  \/ error.code = "ERR_CANCELED"

wrapped(error) ==
  IF isCanceled(error) THEN [canceled |-> TRUE, error |-> error]
  ELSE [canceled |-> FALSE, error |-> error]

\* a call of upload() that was never made
NoCall == [state |-> "idle", path |-> "none", aborted |-> FALSE, thrown |-> {}]

\* the hook before its component is mounted; controllerRef 0 is null
HookUnused ==
  [mounted |-> FALSE, isDev |-> FALSE, hasValidBackend |-> TRUE, token |-> TRUE,
   isUploading |-> FALSE, lastError |-> {}, controllerRef |-> 0,
   calls |-> [id \in UploadIds |-> NoCall],
   lastOp |-> [kind |-> "none", id |-> 0]]

\* the upload is answered by the development mock
isMock(h) == h.isDev /\ (~h.hasValidBackend \/ ~h.token)

\* the component mounts in a build and a session
Mount(isDev, hasValidBackend, token) ==
  /\ ~hook.mounted
  /\ hook' = [hook EXCEPT !.mounted = TRUE, !.isDev = isDev,
                          !.hasValidBackend = hasValidBackend, !.token = token]
  /\ UNCHANGED <<storeVars, dropVars, probeVars, ghostState, ghostEvent, compat, ruler, audioProbe>>

\* the session's token appears or goes away; upload is rebuilt with it
TokenChanges ==
  /\ hook.mounted
  /\ hook' = [hook EXCEPT !.token = ~hook.token, !.lastOp = [kind |-> "token", id |-> 0]]
  /\ UNCHANGED <<storeVars, dropVars, probeVars, ghostState, ghostEvent, compat, ruler, audioProbe>>

\* upload() up to its return (mock) or up to its await (request)
Upload(id) ==
  /\ hook.mounted
  /\ hook.calls[id].state # "inflight"
  /\ hook' =
       IF isMock(hook)
       THEN [hook EXCEPT !.isUploading = FALSE,
                         !.lastError = {},
                         !.calls[id] = [state |-> "returned", path |-> "mock",
                                        aborted |-> FALSE, thrown |-> {}],
                         !.lastOp = [kind |-> "settled", id |-> id]]
       ELSE [hook EXCEPT !.isUploading = TRUE,
                         !.lastError = {},
                         !.controllerRef = id,
                         !.calls[id] = [state |-> "inflight", path |-> "network",
                                        aborted |-> FALSE, thrown |-> {}],
                         !.lastOp = [kind |-> "started", id |-> id]]
  /\ UNCHANGED <<storeVars, dropVars, probeVars, ghostState, ghostEvent, compat, ruler, audioProbe>>

\* cancel()
Cancel ==
  /\ hook.mounted
  /\ hook' =
       IF hook.controllerRef # 0
       THEN [hook EXCEPT !.calls[hook.controllerRef].aborted = TRUE,
                         !.lastOp = [kind |-> "cancel", id |-> hook.controllerRef]]
       ELSE [hook EXCEPT !.lastOp = [kind |-> "cancel", id |-> 0]]
  /\ UNCHANGED <<storeVars, dropVars, probeVars, ghostState, ghostEvent, compat, ruler, audioProbe>>

\* the request of call id is answered: try, then finally
RequestSucceeds(id) ==
  /\ hook.calls[id].state = "inflight"
  /\ ~hook.calls[id].aborted
  /\ hook' = [hook EXCEPT !.calls[id].state = "returned",
                          !.isUploading = FALSE,
                          !.controllerRef = 0,
                          !.lastOp = [kind |-> "settled", id |-> id]]
  /\ UNCHANGED <<storeVars, dropVars, probeVars, ghostState, ghostEvent, compat, ruler, audioProbe>>

\* the request of call id is rejected with error: catch, then finally
RequestRejects(id, error) ==
  /\ hook.calls[id].state = "inflight"
  /\ hook' = [hook EXCEPT !.calls[id].state = "thrown",
                          !.calls[id].thrown = {wrapped(error)},
                          !.lastError = {wrapped(error)},
                          !.isUploading = FALSE,
                          !.controllerRef = 0,
                          !.lastOp = [kind |-> "settled", id |-> id]]
  /\ UNCHANGED <<storeVars, dropVars, probeVars, ghostState, ghostEvent, compat, ruler, audioProbe>>

\* a request that was not aborted fails
RequestFails(id, error) ==
  /\ ~hook.calls[id].aborted
  /\ RequestRejects(id, error)

\* an aborted request is rejected by axios
RequestCanceled(id) ==
  /\ hook.calls[id].aborted
  /\ RequestRejects(id, ErrCanceled)

UploadNext ==
  \/ \E isDev \in BOOLEAN, hasValidBackend \in BOOLEAN, token \in BOOLEAN :
       Mount(isDev, hasValidBackend, token)
  \/ TokenChanges
  \/ \E id \in UploadIds : Upload(id)
  \/ Cancel
  \/ \E id \in UploadIds : RequestSucceeds(id)
  \/ \E id \in UploadIds, error \in FailureErrors : RequestFails(id, error)
  \/ \E id \in UploadIds : RequestCanceled(id)

(***************************************************************************)
(* TimelineRuler: rulerMarkers. Times that need not be whole numbers       *)
(* (seconds, milliseconds, percent) are fractions [num, den]; scale is     *)
(* given in tenths so that values between the thresholds can be drawn.     *)
(***************************************************************************)
\* one unit of scale, in tenths
ScaleUnit == 10

\* scale values: each threshold of the table, a value just above it, and 0.5
Scales == {5, 10, 11, 20, 21, 50, 51, 100, 101, 150, 151, 200, 201, 300, 301}

\* store.maxTime in ms (0: not set) and store.fps (0: not set)
MaxTimes == {0, 1000, 1010, 2000, 60000}
FpsValues == {0, 24, 30, 60}

\* fps when the store has none
DefaultFps == 30

Frac(num, den) == [num |-> num, den |-> den]
FracLess(a, b) == a.num * b.den < b.num * a.den
FracMax(a, b) == IF FracLess(a, b) THEN b ELSE a

\* scale > n
ScaleAbove(scale, n) == scale > n * ScaleUnit

\* variant: the thresholds include their own value (scale >= n)
Granularity_Inclusive(scale, fps) ==
  IF scale >= 30 * ScaleUnit
  THEN [intervalSeconds |-> Frac(1, fps), showFrames |-> TRUE, frameInterval |-> 1]
  ELSE IF scale >= 20 * ScaleUnit
  THEN [intervalSeconds |-> FracMax(Frac(5, fps), Frac(1, 10)), showFrames |-> TRUE, frameInterval |-> 5]
  ELSE IF scale >= 15 * ScaleUnit
  THEN [intervalSeconds |-> FracMax(Frac(10, fps), Frac(2, 10)), showFrames |-> TRUE, frameInterval |-> 10]
  ELSE IF scale >= 10 * ScaleUnit
  THEN [intervalSeconds |-> Frac(1, 1), showFrames |-> FALSE, frameInterval |-> 1]
  ELSE IF scale >= 5 * ScaleUnit
  THEN [intervalSeconds |-> Frac(5, 1), showFrames |-> FALSE, frameInterval |-> 1]
  ELSE IF scale >= 2 * ScaleUnit
  THEN [intervalSeconds |-> Frac(10, 1), showFrames |-> FALSE, frameInterval |-> 1]
  ELSE IF scale >= 1 * ScaleUnit
  THEN [intervalSeconds |-> Frac(30, 1), showFrames |-> FALSE, frameInterval |-> 1]
  ELSE [intervalSeconds |-> Frac(60, 1), showFrames |-> FALSE, frameInterval |-> 1]

\* lines 653-688: intervalSeconds, showFrames and frameInterval by scale
Granularity(scale, fps) ==
  IF ScaleAbove(scale, 30)
  THEN [intervalSeconds |-> Frac(1, fps), showFrames |-> TRUE, frameInterval |-> 1]
  ELSE IF ScaleAbove(scale, 20)
  THEN [intervalSeconds |-> FracMax(Frac(5, fps), Frac(1, 10)), showFrames |-> TRUE, frameInterval |-> 5]
  ELSE IF ScaleAbove(scale, 15)
  THEN [intervalSeconds |-> FracMax(Frac(10, fps), Frac(2, 10)), showFrames |-> TRUE, frameInterval |-> 10]
  ELSE IF ScaleAbove(scale, 10)
  THEN [intervalSeconds |-> Frac(1, 1), showFrames |-> FALSE, frameInterval |-> 1]
  ELSE IF ScaleAbove(scale, 5)
  THEN [intervalSeconds |-> Frac(5, 1), showFrames |-> FALSE, frameInterval |-> 1]
  ELSE IF ScaleAbove(scale, 2)
  THEN [intervalSeconds |-> Frac(10, 1), showFrames |-> FALSE, frameInterval |-> 1]
  ELSE IF ScaleAbove(scale, 1)
  THEN [intervalSeconds |-> Frac(30, 1), showFrames |-> FALSE, frameInterval |-> 1]
  ELSE [intervalSeconds |-> Frac(60, 1), showFrames |-> FALSE, frameInterval |-> 1]

\* variant: the frame loop runs one frame further
MaxFrames_OneMore(maxTime, fps) == (maxTime * fps + 999) \div 1000 + 1

\* lines 694: Math.ceil(maxTimeSeconds * fps)
MaxFrames(maxTime, fps) == (maxTime * fps + 999) \div 1000

\* lines 696-712: the marker of a frame; frame is {f} here, {} in a time marker
FrameMarker(frame, fps, maxTime) ==
  [time |-> Frac(frame, fps),
   timeMs |-> Frac(frame * 1000, fps),
   position |-> Frac(frame * 1000 * 100, fps * maxTime),
   frame |-> {frame},
   isMajor |-> frame % fps = 0,
   isMinor |-> (3 * frame) % fps = 0,
   isFrame |-> TRUE]

\* lines 718-731: the marker of a time in whole seconds
TimeMarker(time, intervalSeconds, maxTime) ==
  [time |-> Frac(time, 1),
   timeMs |-> Frac(time * 1000, 1),
   position |-> Frac(time * 1000 * 100, maxTime),
   frame |-> {},
   isMajor |-> time % (intervalSeconds * 5) = 0,
   isMinor |-> ~(time % (intervalSeconds * 5) = 0),
   isFrame |-> FALSE]

\* lines 695-713: for (frame = 0; frame <= maxFrames; frame += frameInterval),
\* one marker per pass, in the order of the passes
FrameMarkers(maxFrames, frameInterval, fps, maxTime) ==
  [k \in 1..((maxFrames \div frameInterval) + 1) |->
     FrameMarker((k - 1) * frameInterval, fps, maxTime)]

\* variant: the loop stops before maxTimeSeconds (time < maxTimeSeconds)
TimeMarkers_BeforeEnd(intervalSeconds, maxTime) ==
  [k \in 1..(((maxTime - 1) \div (intervalSeconds * 1000)) + 1) |->
     TimeMarker((k - 1) * intervalSeconds, intervalSeconds, maxTime)]

\* lines 717-731: for (time = 0; time <= maxTimeSeconds; time += intervalSeconds),
\* one marker per pass, in the order of the passes
TimeMarkers(intervalSeconds, maxTime) ==
  [k \in 1..((maxTime \div (intervalSeconds * 1000)) + 1) |->
     TimeMarker((k - 1) * intervalSeconds, intervalSeconds, maxTime)]

\* lines 645-736; maxTime and storeFps are the store's values
rulerMarkers(maxTime, storeFps, scale) ==
  IF maxTime = 0 THEN << >>
  ELSE LET fps == IF storeFps = 0 THEN DefaultFps ELSE storeFps
           g == Granularity(scale, fps)
       IN IF g.showFrames
          THEN FrameMarkers(MaxFrames(maxTime, fps), g.frameInterval, fps, maxTime)
          ELSE TimeMarkers(g.intervalSeconds.num, maxTime)

\* the ruler before its first render
RulerUnused == [rendered |-> FALSE, maxTime |-> 0, fps |-> 0, scale |-> ScaleUnit, markers |-> << >>]

\* the component renders: the memo computes the markers for its inputs
RulerRender(maxTime, storeFps, scale) ==
  /\ ~ruler.rendered
  /\ ruler' = [rendered |-> TRUE, maxTime |-> maxTime, fps |-> storeFps, scale |-> scale,
               markers |-> rulerMarkers(maxTime, storeFps, scale)]
  /\ UNCHANGED <<storeVars, dropVars, probeVars, ghostState, ghostEvent, compat, hook, audioProbe>>

\* store.maxTime, store.fps or scale change: the memo is stale
RulerInputsChange ==
  /\ ruler.rendered
  /\ ruler' = RulerUnused
  /\ UNCHANGED <<storeVars, dropVars, probeVars, ghostState, ghostEvent, compat, hook, audioProbe>>

RulerNext ==
  \/ \E maxTime \in MaxTimes, storeFps \in FpsValues, scale \in Scales :
       RulerRender(maxTime, storeFps, scale)
  \/ RulerInputsChange

(***************************************************************************)
(* handleDrop.                                                             *)
(***************************************************************************)
\* the iteration for the current file ends having raised these toasts
EndIteration(locals, toasts) ==
  /\ log' = Append(log, toasts)
  /\ last' = [locals EXCEPT !.toasts = toasts]
  /\ cur' = CurNone

\* the dropped files that match neither a media MIME type nor a media extension
MatchesNeither(file) == ~isMediaMime(file) /\ ~isMediaExt(file)

\* lines 139-142: the files the "Some files were rejected" toast names
MaxNamed == 3
NamedInToast(rejected) ==
  SubSeq(rejected, 1, IF Len(rejected) > MaxNamed THEN MaxNamed ELSE Len(rejected))

\* what a drop held: its files, those matching neither, those of them that no
\* toast of the drop covers, whether the payload could be read, and the row
\* count and the overlays of the project when the drop arrived
Intake(files, named, generic, readable) ==
  [files |-> Len(files),
   nonMedia |-> Len(SelectSeq(files, MatchesNeither)),
   unreported |-> IF generic THEN 0
                  ELSE Len(SelectSeq(files, MatchesNeither)) - Len(SelectSeq(named, MatchesNeither)),
   readable |-> readable, rows |-> maxRows, overlays |-> Len(overlays)]

\* lines 103-148: filter, validate, report the rejected ones
DropEvent(files) ==
  /\ pc = "idle"
  /\ dropped + Len(files) <= MaxDropped
  /\ dropped' = dropped + Len(files)
  /\ batchNo' = batchNo + 1
  /\ fileNo' = 0
  /\ log' = << >>
  /\ last' = CurNone
  /\ cur' = CurNone
  /\ IF \E i \in DOMAIN files : IsMalformed(files[i])
     THEN \* reading file.type throws inside the outer try
          /\ batchToasts' = {"failed_to_process"}
          /\ intake' = Intake(files, << >>, TRUE, FALSE)
          /\ accepted' = << >>
          /\ pc' = "idle"
     ELSE LET mediaFiles == SelectSeq(files, IsMediaFile)
              acc == SelectSeq(mediaFiles, IsValid)
              rejected == SelectSeq(mediaFiles, IsInvalid)
          IN IF Len(mediaFiles) = 0
             THEN /\ batchToasts' = {"unsupported_file_type"}
                  /\ intake' = Intake(files, << >>, TRUE, TRUE)
                  /\ accepted' = << >>
                  /\ pc' = "idle"
             ELSE /\ batchToasts' = IF Len(rejected) > 0 THEN {"some_rejected"} ELSE {}
                  /\ intake' = Intake(files, NamedInToast(rejected), FALSE, TRUE)
                  /\ accepted' = acc
                  /\ pc' = IF Len(acc) = 0 THEN "idle" ELSE "loop"
  /\ UNCHANGED <<storeVars, inflight, probeVars, restVars>>

\* line 310: the loop is over
FinishBatch ==
  /\ pc = "loop"
  /\ accepted = << >>
  /\ refreshes' = refreshes + 1
  /\ pc' = "idle"
  /\ cur' = CurNone
  /\ UNCHANGED <<maxRows, overlays, dedVideoRow, dedAudioRow, dedImageRow,
                 accepted, batchNo, dropped, intake, fileNo, log, last, inflight, batchToasts, probeVars, restVars>>

\* lines 155-176: a file with no upload type is reported and skipped
SkipUnsupported ==
  /\ pc = "loop"
  /\ accepted # << >>
  /\ LET file == Head(accepted)
         uploadType == UploadType(LogicalType(file))
     IN /\ uploadType = "null"
        /\ EndIteration(CurNone, <<"error_unsupported">>)
  /\ accepted' = Tail(accepted)
  /\ fileNo' = fileNo + 1
  /\ UNCHANGED <<storeVars, pc, batchNo, dropped, intake, inflight, batchToasts, probeVars, restVars>>

\* lines 155-178: the upload of the next file is started and awaited
StartUpload ==
  /\ pc = "loop"
  /\ accepted # << >>
  /\ LET file == Head(accepted)
         uploadType == UploadType(LogicalType(file))
     IN /\ uploadType # "null"
        /\ cur' = [CurNone EXCEPT !.type = uploadType]
  /\ accepted' = Tail(accepted)
  /\ fileNo' = fileNo + 1
  /\ inflight' = inflight + 1
  /\ pc' = "uploading"
  /\ UNCHANGED <<storeVars, batchNo, dropped, intake, log, last, batchToasts, probeVars, restVars>>

\* variant: a rejected upload escapes to the handler's outer catch
UploadFails_Escapes(how) ==
  /\ pc = "uploading"
  /\ inflight' = inflight - 1
  /\ EndIteration([cur EXCEPT !.upload = how, !.failed = "upload"], << >>)
  /\ batchToasts' = batchToasts \cup {"failed_to_process"}
  /\ pc' = "idle"
  /\ UNCHANGED <<storeVars, accepted, batchNo, dropped, intake, fileNo, probeVars, restVars>>

\* lines 178, 304-307: uploadFile rejects (how: "failed" or "canceled")
UploadFails(how) ==
  /\ pc = "uploading"
  /\ inflight' = inflight - 1
  /\ EndIteration([cur EXCEPT !.upload = how, !.failed = "upload"], <<"error_failed_to_upload">>)
  /\ pc' = "loop"
  /\ UNCHANGED <<storeVars, accepted, batchNo, dropped, intake, fileNo, batchToasts, probeVars, restVars>>

\* variant: every image starts at the end of the video track
ImageStartTime_VideoEnd(imageRow) == lastVideoEnd

\* lines 188-189: a new image starts where the last image of its row ends
ImageStartTime(imageRow) == getLastImageEndTime(imageRow)

\* lines 184-195: row, row count, start time, then addImageLocal is awaited
UploadOkImage(duration) ==
  /\ pc = "uploading"
  /\ cur.type = "image"
  /\ inflight' = inflight - 1
  /\ LET imageRow == getDedicatedImageTrackRow
         lastImageEndTime == ImageStartTime(imageRow)
     IN /\ maxRows' = IF imageRow >= maxRows THEN imageRow + 1 ELSE maxRows
        /\ cur' = [cur EXCEPT !.upload = "ok", !.row = imageRow,
                              !.startTime = lastImageEndTime, !.seen = Len(overlays)]
  /\ pc' = "addingImage"
  /\ UNCHANGED <<overlays, dedVideoRow, dedAudioRow, dedImageRow, refreshes,
                 accepted, batchNo, dropped, intake, fileNo, log, last, batchToasts, probeVars, restVars>>

\* lines 209-212: row, row count, start time, then addExistingAudio is awaited
PlaceAudio(durationMs) ==
  LET audioRow == getDedicatedAudioTrackRow
      startTime == lastAudioEnd
  IN /\ maxRows' = IF audioRow >= maxRows THEN audioRow + 1 ELSE maxRows
     /\ cur' = [cur EXCEPT !.upload = "ok", !.durationMs = durationMs, !.row = audioRow,
                           !.audioRow = audioRow, !.startTime = startTime,
                           !.seen = Len(overlays)]
     /\ pc' = "addingAudio"

\* lines 198-200: the upload result carries a numeric duration
UploadOkAudio(duration) ==
  /\ pc = "uploading"
  /\ cur.type = "audio"
  /\ duration # NoDur
  /\ inflight' = inflight - 1
  /\ PlaceAudio(duration * 1000)
  /\ UNCHANGED <<overlays, dedVideoRow, dedAudioRow, dedImageRow, refreshes,
                 accepted, batchNo, dropped, intake, fileNo, log, last, batchToasts, probeVars, restVars>>

\* lines 201-203: no numeric duration, getAudioDurationSeconds is awaited
UploadOkAudioNoDuration ==
  /\ pc = "uploading"
  /\ cur.type = "audio"
  /\ inflight' = inflight - 1
  /\ cur' = [cur EXCEPT !.upload = "ok", !.upDur = NoDur]
  /\ pc' = "probingAudio"
  /\ UNCHANGED <<storeVars, accepted, batchNo, dropped, intake, fileNo, log, last, batchToasts, probeVars, restVars>>

\* lines 203-207: durationMs from the local probe, 5000 when it rejects
AudioFallbackMs == 5000
AudioMinMs == 1000
AudioDurationMs(settled, durationSec) ==
  IF settled = "resolved" THEN Max2(AudioMinMs, durationSec * 1000) ELSE AudioFallbackMs

AudioProbeSettles(settled, durationSec) ==
  /\ pc = "probingAudio"
  /\ PlaceAudio(AudioDurationMs(settled, durationSec))
  /\ UNCHANGED <<overlays, dedVideoRow, dedAudioRow, dedImageRow, refreshes,
                 accepted, batchNo, dropped, intake, fileNo, log, last, inflight, batchToasts, probeVars, restVars>>

(***************************************************************************)
(* getAudioDurationSeconds and the durationMs handleDrop takes from it.    *)
(***************************************************************************)
\* audio.duration: {} while it is NaN, {d} once the metadata is known
AudioElementSec == AudioProbeSec \cup ServerDurationsSec
AudioProbeUnused ==
  [promise |-> "none", value |-> {}, duration |-> {}, metadataKnown |-> FALSE,
   loaded |-> FALSE, errored |-> FALSE, timeoutFired |-> FALSE, revokes |-> 0,
   late |-> FALSE, upDur |-> {}, durationMs |-> {}]

\* !audio.duration, audio.duration || 0
DurationFalsy(duration) == duration = {} \/ duration = {0}
DurationOrZero(duration) == IF DurationFalsy(duration) THEN 0 ELSE CHOOSE d \in duration : TRUE

\* resolve/reject settle the promise once; the awaiting handleDrop continues
\* with lines 203-207. late: the timer had fired before the settling callback
SettleAudioProbe(p, outcome, sec, late) ==
  IF p.promise = "pending"
  THEN [p EXCEPT !.promise = outcome,
                 !.late = late,
                 !.value = IF outcome = "resolved" THEN {sec} ELSE {},
                 !.durationMs = {AudioDurationMs(outcome, sec)}]
  ELSE p

\* handleDrop reaches the next audio file once durationMs of the one
\* before is taken (the files of a drop are processed in sequence)
AudioFileNext ==
  /\ Len(audioProbe) < MaxAudioFiles
  /\ audioProbe # <<>> => audioProbe[Len(audioProbe)].durationMs # {}

\* lines 198-200: typeof uploadResult?.duration === 'number'
AudioDurationFromUpload(duration) ==
  /\ AudioFileNext
  /\ audioProbe' = Append(audioProbe, [AudioProbeUnused EXCEPT !.upDur = {duration},
                                                              !.durationMs = {duration * 1000}])
  /\ UNCHANGED <<storeVars, dropVars, probeVars, ghostState, ghostEvent, compat, hook, ruler>>

\* lines 201-203, 40-46: no numeric duration, the promise is created
getAudioDurationSeconds ==
  /\ AudioFileNext
  /\ audioProbe' = Append(audioProbe, [AudioProbeUnused EXCEPT !.promise = "pending"])
  /\ UNCHANGED <<storeVars, dropVars, probeVars, ghostState, ghostEvent, compat, hook, ruler>>

\* the element of file i reaches HAVE_METADATA: audio.duration is set and
\* the loadedmetadata event is queued
AudioMetadataKnown(i, d) ==
  /\ audioProbe[i].promise # "none"
  /\ ~audioProbe[i].metadataKnown
  /\ ~audioProbe[i].errored
  /\ audioProbe' = [audioProbe EXCEPT ![i].duration = {d}, ![i].metadataKnown = TRUE]
  /\ UNCHANGED <<storeVars, dropVars, probeVars, ghostState, ghostEvent, compat, hook, ruler>>

\* lines 48-51: audio.onloadedmetadata
audioOnLoadedMetadata(i) ==
  /\ audioProbe[i].metadataKnown
  /\ ~audioProbe[i].loaded
  /\ audioProbe' = [audioProbe EXCEPT ![i] =
       SettleAudioProbe([@ EXCEPT !.loaded = TRUE, !.revokes = @ + 1],
                        "resolved", DurationOrZero(@.duration), @.timeoutFired)]
  /\ UNCHANGED <<storeVars, dropVars, probeVars, ghostState, ghostEvent, compat, hook, ruler>>

\* lines 53-56: audio.onerror
audioOnError(i) ==
  /\ audioProbe[i].promise # "none"
  /\ ~audioProbe[i].metadataKnown
  /\ ~audioProbe[i].errored
  /\ audioProbe' = [audioProbe EXCEPT ![i] =
       SettleAudioProbe([@ EXCEPT !.errored = TRUE, !.revokes = @ + 1], "rejected", 0,
                        @.timeoutFired)]
  /\ UNCHANGED <<storeVars, dropVars, probeVars, ghostState, ghostEvent, compat, hook, ruler>>

\* lines 58-63: the 5000 ms timer
audioTimeout(p) ==
  IF DurationFalsy(p.duration)
  THEN SettleAudioProbe([p EXCEPT !.timeoutFired = TRUE, !.revokes = @ + 1], "rejected", 0, FALSE)
  ELSE [p EXCEPT !.timeoutFired = TRUE]

AudioTimerFires(i) ==
  /\ audioProbe[i].promise # "none"
  /\ ~audioProbe[i].timeoutFired
  /\ audioProbe' = [audioProbe EXCEPT ![i] = audioTimeout(@)]
  /\ UNCHANGED <<storeVars, dropVars, probeVars, ghostState, ghostEvent, compat, hook, ruler>>

AudioProbeNext ==
  \/ \E duration \in ServerDurationsSec \cup {0} : AudioDurationFromUpload(duration)
  \/ getAudioDurationSeconds
  \/ \E i \in DOMAIN audioProbe, d \in AudioElementSec : AudioMetadataKnown(i, d)
  \/ \E i \in DOMAIN audioProbe : audioOnLoadedMetadata(i)
  \/ \E i \in DOMAIN audioProbe : audioOnError(i)
  \/ \E i \in DOMAIN audioProbe : AudioTimerFires(i)

\* line 230: the upload succeeded, getVideoMetadataFromUrl is awaited
UploadOkVideo(duration) ==
  /\ pc = "uploading"
  /\ cur.type = "video"
  /\ inflight' = inflight - 1
  /\ cur' = [cur EXCEPT !.upload = "ok", !.upDur = duration]
  /\ pc' = "probingVideo"
  /\ UNCHANGED <<storeVars, accepted, batchNo, dropped, intake, fileNo, log, last, batchToasts, probeVars, restVars>>

\* lines 229-249: duration and hasAudio from the probe, or from the catch branch
VideoDurationMs(run, upDur) ==
  IF ~run.rejected THEN run.meta.durationMs
  ELSE IF upDur # NoDur THEN upDur * 1000
  ELSE DefaultDurationMs
VideoHasAudio(run) == IF ~run.rejected THEN run.meta.hasAudio ELSE FALSE

\* variant: the collision of the two dedicated rows is not resolved
CompanionAudioRow_Kept(videoRow, audioRow, hasAudio, rows) == audioRow

\* lines 253-259: the row of the companion audio
CompanionAudioRow(videoRow, audioRow, hasAudio, rows) ==
  IF audioRow = videoRow /\ hasAudio THEN Max2(videoRow + 1, rows) ELSE audioRow

\* variant: the row count is assigned without the >= test
GrownRows_Assigned(videoRow, audioRow, hasAudio, rows) ==
  IF hasAudio THEN Max2(videoRow, audioRow) + 1 ELSE videoRow + 1

\* lines 261-262: the row count after the rows are known
GrownRows(videoRow, audioRow, hasAudio, rows) ==
  LET afterVideo == IF videoRow >= rows THEN videoRow + 1 ELSE rows
  IN IF hasAudio /\ audioRow >= afterVideo THEN audioRow + 1 ELSE afterVideo

\* lines 229-274: the probe settled; rows, row count and start time are
\* fixed and handleVideoUploadFromUrl is awaited
VideoProbeSettles(run) ==
  /\ pc = "probingVideo"
  /\ LET durationMs == VideoDurationMs(run, cur.upDur)
         hasAudio == VideoHasAudio(run)
         videoRow == getDedicatedVideoTrackRow
         audioRow == CompanionAudioRow(videoRow, getDedicatedAudioTrackRow, hasAudio, maxRows)
         alignedStartTime == lastVideoEnd
     IN /\ maxRows' = GrownRows(videoRow, audioRow, hasAudio, maxRows)
        /\ cur' = [cur EXCEPT !.probePath = run.path, !.durationMs = durationMs,
                              !.hasAudio = hasAudio, !.row = videoRow, !.audioRow = audioRow,
                              !.startTime = alignedStartTime, !.seen = Len(overlays)]
  /\ pc' = "addingVideo"
  /\ UNCHANGED <<overlays, dedVideoRow, dedAudioRow, dedImageRow, refreshes,
                 accepted, batchNo, dropped, intake, fileNo, log, last, inflight, batchToasts, probeVars, restVars>>

\* lines 190-196: the image overlay exists
ImageAdded ==
  /\ pc = "addingImage"
  /\ overlays' = addImageLocal(cur.row, cur.startTime)
  /\ EndIteration(cur, <<"success">>)
  /\ pc' = "loop"
  /\ UNCHANGED <<maxRows, dedVideoRow, dedAudioRow, dedImageRow, refreshes,
                 accepted, batchNo, dropped, intake, fileNo, inflight, batchToasts, probeVars, restVars>>

\* lines 212-222: the audio overlay exists
AudioAdded ==
  /\ pc = "addingAudio"
  /\ overlays' = addExistingAudio(cur.row, cur.startTime, cur.durationMs, FALSE)
  /\ EndIteration(cur, <<"success">>)
  /\ pc' = "loop"
  /\ UNCHANGED <<maxRows, dedVideoRow, dedAudioRow, dedImageRow, refreshes,
                 accepted, batchNo, dropped, intake, fileNo, inflight, batchToasts, probeVars, restVars>>

\* lines 265-302: the video overlay exists; with hasAudio the companion
\* audio is created next, otherwise the file is done
VideoAdded ==
  /\ pc = "addingVideo"
  /\ overlays' = handleVideoUploadFromUrl(cur.row, cur.startTime, cur.durationMs)
  /\ IF cur.hasAudio
     THEN /\ pc' = "addingCompanion"
          /\ UNCHANGED <<cur, log, last>>
     ELSE /\ EndIteration(cur, <<"success">>)
          /\ pc' = "loop"
  /\ UNCHANGED <<maxRows, dedVideoRow, dedAudioRow, dedImageRow, refreshes,
                 accepted, batchNo, dropped, intake, fileNo, inflight, batchToasts, probeVars, restVars>>

\* lines 304-307: addImageLocal, addExistingAudio or handleVideoUploadFromUrl
\* rejects: nothing is created, the inner catch reports the file
CreateFails ==
  /\ pc \in {"addingImage", "addingAudio", "addingVideo"}
  /\ EndIteration([cur EXCEPT !.failed = "create"], <<"error_failed_to_upload">>)
  /\ pc' = "loop"
  /\ UNCHANGED <<storeVars, accepted, batchNo, dropped, intake, fileNo, inflight, batchToasts, probeVars, restVars>>

\* variant: the companion audio is appended to the audio track
CompanionStartTime_EndBar(alignedStartTime) == lastAudioEnd

\* lines 283-285: the companion audio takes the video's start and duration
CompanionStartTime(alignedStartTime) == alignedStartTime
CompanionDurationMs(durationMs) == durationMs

\* lines 279-289, 298-302: the companion audio exists, aligned with the video
CompanionAdded ==
  /\ pc = "addingCompanion"
  /\ overlays' = addExistingAudio(cur.audioRow, CompanionStartTime(cur.startTime),
                                  CompanionDurationMs(cur.durationMs), TRUE)
  /\ EndIteration(cur, <<"success">>)
  /\ pc' = "loop"
  /\ UNCHANGED <<maxRows, dedVideoRow, dedAudioRow, dedImageRow, refreshes,
                 accepted, batchNo, dropped, intake, fileNo, inflight, batchToasts, probeVars, restVars>>

\* variant: the rejection reaches the catch of the file, as a failed upload
CompanionFails_Escapes ==
  /\ pc = "addingCompanion"
  /\ EndIteration([cur EXCEPT !.failed = "companion"], <<"error_failed_to_upload">>)
  /\ pc' = "loop"
  /\ UNCHANGED <<storeVars, accepted, batchNo, dropped, intake, fileNo, inflight, batchToasts, probeVars, restVars>>

\* lines 290-302: the companion audio could not be created; the video stays
CompanionFails ==
  /\ pc = "addingCompanion"
  /\ EndIteration([cur EXCEPT !.failed = "companion"],
                  <<"error_video_added_audio_failed", "success">>)
  /\ pc' = "loop"
  /\ UNCHANGED <<storeVars, accepted, batchNo, dropped, intake, fileNo, inflight, batchToasts, probeVars, restVars>>

UploadDurations == ServerDurationsSec \cup {NoDur}

Next ==
  \/ \E files \in AllFileLists : DropEvent(files)
  \/ FinishBatch
  \/ SkipUnsupported
  \/ StartUpload
  \/ \E how \in {"failed", "canceled"} : UploadFails(how)
  \/ \E duration \in UploadDurations : UploadOkImage(duration)
  \/ \E duration \in ServerDurationsSec : UploadOkAudio(duration)
  \/ UploadOkAudioNoDuration
  \/ \E durationSec \in AudioProbeSec : AudioProbeSettles("resolved", durationSec)
  \/ AudioProbeSettles("rejected", 0)
  \/ \E duration \in UploadDurations : UploadOkVideo(duration)
  \/ \E run \in ProbeRuns : VideoProbeSettles(run)
  \/ ImageAdded
  \/ AudioAdded
  \/ VideoAdded
  \/ CreateFails
  \/ CompanionAdded
  \/ CompanionFails

Init ==
  /\ maxRows = InitialMaxRows
  /\ overlays = << >>
  /\ dedVideoRow \in 0..MaxDedRow
  /\ dedAudioRow \in 0..MaxDedRow
  /\ dedImageRow = MaxDedRow + 1
  /\ refreshes = 0
  /\ pc = "idle"
  /\ accepted = << >>
  /\ batchNo = 0
  /\ dropped = 0
  /\ intake = Intake(<< >>, << >>, TRUE, TRUE)
  /\ fileNo = 0
  /\ cur = CurNone
  /\ log = << >>
  /\ last = CurNone
  /\ inflight = 0
  /\ batchToasts = {}
  /\ probe = ProbeUnused
  /\ ghostState = GhostEmpty
  /\ ghostEvent = NoGhostEvent
  /\ compat = CompatNone
  /\ hook = HookUnused
  /\ ruler = RulerUnused
  /\ audioProbe = <<>>

Spec == Init /\ [][Next]_vars

SpecProbe == Init /\ [][ProbeNext]_vars

\* a timer that was set and not cleared fires
SpecProbeFair == SpecProbe /\ WF_vars(TimeoutFires)

\* the initial state with the dedicated rows not yet created
InitAtRest == Init /\ dedVideoRow = 0 /\ dedAudioRow = 0

\* the compatibility policy asked about every pair of kinds
SpecCompat == InitAtRest /\ [][CompatNext]_vars

\* the ghost state under its writers and the document's listeners
SpecGhost == InitAtRest /\ [][GhostNext]_vars

\* a file drag over the grid
SpecFileGhost == InitAtRest /\ [][FileGhostNext]_vars

\* one mounted useUploadProgress under overlapping calls
SpecUpload == InitAtRest /\ [][UploadNext]_vars

\* the ruler rendered for every combination of its inputs
SpecRuler == InitAtRest /\ [][RulerNext]_vars

\* one audio file's duration in handleDrop (lines 197-208, 40-65)
SpecAudioProbe == InitAtRest /\ [][AudioProbeNext]_vars

(***************************************************************************)
(* Properties of the drop pipeline.                                        *)
(***************************************************************************)
Placing == pc \in {"addingImage", "addingAudio", "addingVideo", "addingCompanion"}
Ended == pc \in {"loop", "idle"} /\ Len(log) > 0

\* the overlays created for file f of drop b
FileOverlays(b, f) ==
  { i \in DOMAIN overlays : overlays[i].batch = b /\ overlays[i].file = f }
OfKind(S, kind) == { i \in S : overlays[i].kind = kind }

\* the end time the store gives the current file's kind over the overlays ovs
EndTimeFor(locals, ovs) ==
  CASE locals.type = "image" -> getLastImageEndTimeOf(ovs, locals.row)
    [] locals.type = "audio" -> getLastAudioEndTimeOf(ovs)
    [] OTHER -> getLastVideoEndTimeOf(ovs)

\* C1: within one drop the files are handled strictly one at a time: at most
\* one upload is in flight, every earlier iteration has ended before the next
\* starts, and the end time read for file i is the end time over exactly the
\* overlays that existed then, which include every overlay of files 1..i-1
\* of the drop and none of a later file.
C1_OneFileAtATime ==
  /\ inflight <= 1
  /\ inflight = 1 => pc = "uploading"
  /\ pc \notin {"idle", "loop"} => Len(log) = fileNo - 1
  /\ Placing =>
       /\ cur.seen <= Len(overlays)
       /\ \A i \in 1..cur.seen :
            overlays[i].batch = batchNo => overlays[i].file < fileNo
       /\ \A i \in DOMAIN overlays :
            (overlays[i].batch = batchNo /\ overlays[i].file < fileNo) => i <= cur.seen
       /\ cur.startTime = EndTimeFor(cur, SubSeq(overlays, 1, cur.seen))

\* a second video of a drop is being placed after the first one was created
C1_Witness ==
  /\ pc = "addingVideo"
  /\ \E i \in DOMAIN overlays :
       overlays[i].batch = batchNo /\ overlays[i].file < fileNo /\ overlays[i].kind = "video"

RECURSIVE SumDur(_)
SumDur(S) ==
  IF S = {} THEN 0
  ELSE LET i == CHOOSE x \in S : TRUE IN overlays[i].dur + SumDur(S \ {i})

DropImages == { i \in DOMAIN overlays : overlays[i].kind = "image" /\ overlays[i].batch = batchNo }
NoEarlierImages == \A i \in DOMAIN overlays : overlays[i].kind = "image" => overlays[i].batch = batchNo

\* C2: when no image overlay existed before the drop, the images the drop
\* created start at strictly increasing times in drop order, each at the sum
\* of the durations of the images the drop placed before it.
C2_ImagesInSequence ==
  NoEarlierImages =>
    \A i \in DropImages :
      /\ overlays[i].start = SumDur({ j \in DropImages : j < i })
      /\ \A j \in DropImages : j < i => overlays[j].start < overlays[i].start

\* two images of one drop are on the timeline, after another overlay
C2_Witness ==
  /\ NoEarlierImages
  /\ Cardinality(DropImages) >= 2
  /\ \E i \in DOMAIN overlays : overlays[i].kind = "video"

\* the rows the handler chose for a video with an audio track
RowsApart(locals) ==
  /\ locals.audioRow # locals.row
  /\ maxRows >= Max2(locals.row, locals.audioRow) + 1

\* C3: for a video whose probe reports audio, with the store's dedicated
\* audio row equal to its dedicated video row, the companion audio's row
\* differs from the video's row and maxRows >= max(videoRow, audioRow) + 1
\* once the rows are fixed and after the overlays are created.
C3_CompanionRowDistinct ==
  dedAudioRow = dedVideoRow =>
    /\ (pc \in {"addingVideo", "addingCompanion"} /\ cur.hasAudio) => RowsApart(cur)
    /\ (Ended /\ last.type = "video" /\ last.hasAudio /\ last.row # NoRow) =>
         /\ RowsApart(last)
         /\ \A i, j \in FileOverlays(batchNo, fileNo) :
              (overlays[i].kind = "video" /\ overlays[j].kind = "audio") =>
                /\ overlays[i].row # overlays[j].row
                /\ maxRows >= Max2(overlays[i].row, overlays[j].row) + 1

\* a video and its companion audio exist while the dedicated rows coincide
C3_Witness ==
  /\ dedAudioRow = dedVideoRow
  /\ Ended /\ last.type = "video" /\ last.hasAudio
  /\ OfKind(FileOverlays(batchNo, fileNo), "audio") # {}

\* C4: no audio overlay the pipeline created lies on a row on which it
\* placed a video overlay.
C4_AudioNeverOnVideoRow ==
  \A i, j \in DOMAIN overlays :
    (overlays[i].kind = "audio" /\ overlays[j].kind = "video") =>
      overlays[i].row # overlays[j].row

\* the file whose iteration ended last was a video that reached the probe
VideoEnded == Ended /\ last.type = "video" /\ last.probePath # "none"
VideosOfLast == OfKind(FileOverlays(batchNo, fileNo), "video")
AudiosOfLast == OfKind(FileOverlays(batchNo, fileNo), "audio")
Aligned ==
  \A v \in VideosOfLast, a \in AudiosOfLast :
    overlays[a].start = overlays[v].start /\ overlays[a].dur = overlays[v].dur

\* C5 as stated: a video whose probe reports audio gets exactly one video
\* overlay and exactly one companion audio overlay with the video's start and
\* duration; a video whose probe reports no audio gets exactly one video
\* overlay and no audio overlay.
C5_Stated ==
  VideoEnded =>
    /\ Cardinality(VideosOfLast) = 1
    /\ Cardinality(AudiosOfLast) = (IF last.hasAudio THEN 1 ELSE 0)
    /\ Aligned

\* C5 as amended: the counts hold when the overlay creations succeed; when
\* the companion audio's creation fails only the video overlay exists, when
\* the video's creation fails no overlay exists; an audio overlay of the
\* file always has the video's start and duration and is marked companion.
C5_VideoAndCompanion ==
  VideoEnded =>
    /\ last.toasts = <<"success">> =>
         /\ Cardinality(VideosOfLast) = 1
         /\ Cardinality(AudiosOfLast) = (IF last.hasAudio THEN 1 ELSE 0)
    /\ last.toasts = <<"error_video_added_audio_failed", "success">> =>
         /\ last.hasAudio
         /\ Cardinality(VideosOfLast) = 1
         /\ AudiosOfLast = {}
    /\ last.toasts = <<"error_failed_to_upload">> =>
         VideosOfLast = {} /\ AudiosOfLast = {}
    /\ Aligned
    /\ \A a \in AudiosOfLast : overlays[a].comp
    /\ \A v \in VideosOfLast : overlays[v].start = last.startTime /\ overlays[v].dur = last.durationMs

\* a video and its companion exist, and the audio track already ended later
\* than the video track when they were placed
C5_Witness ==
  /\ VideoEnded /\ last.hasAudio /\ last.toasts = <<"success">>
  /\ Cardinality(AudiosOfLast) = 1
  /\ \E i \in 1..last.seen : overlays[i].kind = "audio" /\ End(overlays[i]) > last.startTime

\* C6: every overlay the pipeline creates starts at or after the end of every
\* overlay of its kind that already existed on its row, the companion audio
\* of a video included.
C6_AppendOnly ==
  \A i, j \in DOMAIN overlays :
    (j < i /\ overlays[j].kind = overlays[i].kind /\ overlays[j].row = overlays[i].row) =>
      overlays[i].start >= End(overlays[j])

ErrorToasts == {"error_failed_to_upload", "error_video_added_audio_failed", "error_unsupported"}
Reported(locals) == \E k \in DOMAIN locals.toasts : locals.toasts[k] \in ErrorToasts
\* the loop goes on with the files that remain, and no batch-level failure
BatchGoesOn ==
  /\ "failed_to_process" \notin batchToasts
  /\ Len(log) = fileNo
  /\ accepted # << >> => pc = "loop"

\* C7 as stated: when the upload or an overlay creation of a file fails, no
\* overlay exists for that file, the failure is reported for the file, the
\* remaining files are still processed and no batch-level failure is raised.
C7_Stated ==
  (Ended /\ last.failed # "none") =>
    /\ FileOverlays(batchNo, fileNo) = {}
    /\ Reported(last)
    /\ BatchGoesOn

\* C7 as amended: when the upload, or the creation of the file's own overlay
\* (image, audio or video), fails, no overlay exists for that file; when only
\* the companion audio's creation fails the video overlay alone exists; in
\* every case the failure is reported for the file, the remaining files are
\* still processed and no batch-level failure is raised.
C7_FailureIsolated ==
  (Ended /\ last.failed # "none") =>
    /\ last.failed \in {"upload", "create"} =>
         /\ FileOverlays(batchNo, fileNo) = {}
         /\ last.toasts = <<"error_failed_to_upload">>
    /\ last.failed = "companion" =>
         /\ Cardinality(FileOverlays(batchNo, fileNo)) = 1
         /\ Cardinality(VideosOfLast) = 1
         /\ "error_video_added_audio_failed" \in { last.toasts[k] : k \in DOMAIN last.toasts }
    /\ Reported(last)
    /\ BatchGoesOn

\* an upload failed and the next file of the same drop was placed
C7_Witness ==
  /\ Ended /\ Len(log) >= 2
  /\ log[Len(log) - 1] = <<"error_failed_to_upload">>
  /\ log[Len(log)] = <<"success">>
  /\ FileOverlays(batchNo, fileNo) # {} /\ FileOverlays(batchNo, fileNo - 1) = {}

\* C10: when the probe of a video failed or timed out, the video overlay has
\* the server-reported duration if the upload result carries one and 10000 ms
\* otherwise, and no companion audio overlay exists.
C10_ServerDurationFallback ==
  (VideoEnded /\ last.probePath \in {"error", "timeout"}) =>
    /\ \A v \in VideosOfLast :
         overlays[v].dur = (IF last.upDur # NoDur THEN last.upDur * 1000 ELSE DefaultDurationMs)
    /\ AudiosOfLast = {}

(***************************************************************************)
(* Properties of the metadata probe.                                       *)
(***************************************************************************)
ProbeResolved == probe.promise = "resolved"

\* C8: the probe's promise is never rejected; once the timeout has fired the
\* promise is resolved, whatever events came before and whether or not a
\* duration was known; and every call is eventually resolved.
C8_ProbeAlwaysResolves ==
  /\ [](probe.promise \in {"pending", "resolved"})
  /\ [](probe.timeoutFired => ProbeResolved)
  /\ [](probe.state = "called" => <>ProbeResolved)

\* metadata arrived without a duration, and the timeout ended the probe
C8_Witness ==
  /\ ProbeResolved /\ probe.path = "timeout" /\ probe.timeoutFired
  /\ probe.waitTimers > 0

NoAudioSignal(video) ==
  ~video.mozHasAudio /\ ~(video.webkitBytes > 0) /\ ~(video.audioTracks > 0)

\* C9: a probe that resolves on the error, timeout, empty-url or
\* source-failure path gives exactly {durationMs: 10000, hasAudio: false}; a
\* probe that resolves from a detection pass saw a positive duration, and
\* when no audio signal was present then it gives hasAudio = true and
\* durationMs = duration * 1000.
C9_AsymmetricResult ==
  ProbeResolved =>
    /\ probe.path \in {"error", "timeout", "empty", "source", "detect"}
    /\ probe.path \in {"error", "timeout", "empty", "source"} =>
         probe.result = [durationMs |-> 10000, hasAudio |-> FALSE]
    /\ probe.path = "detect" =>
         /\ probe.seenVideo.duration > 0
         /\ NoAudioSignal(probe.seenVideo) =>
              /\ probe.result.hasAudio = TRUE
              /\ probe.result.durationMs = probe.seenVideo.duration * 1000

\* a detection pass resolved with a duration and no audio signal
C9_Witness ==
  /\ ProbeResolved /\ probe.path = "detect"
  /\ NoAudioSignal(probe.seenVideo) /\ probe.seenVideo.readyState >= 2

(***************************************************************************)
(* Properties of the ghost state.                                          *)
(***************************************************************************)
\* all flags false, all ghost objects null, all lists empty; the hover marker
\* is no part of a drag
FullyReset(g) ==
  /\ ~g.isDragging /\ ~g.isResizing /\ ~g.isMultiDragging
  /\ ~g.isGalleryDragging /\ ~g.isFileDragging /\ ~g.isIncompatibleRow
  /\ g.ghostElement = {} /\ g.resizeGhostElement = {}
  /\ g.galleryGhostElement = {} /\ g.fileGhostElement = {}
  /\ g.multiGhostElements = << >> /\ g.alignmentLines = << >>

\* the last event found a file drag or a gallery drag
FoundFileOrGallery == ghostEvent.wasFile \/ ghostEvent.wasGallery

\* the pointer of the last event was outside the bounds of the mounted grid
OutsideGrid == ghostEvent.grid /\ ~ghostEvent.overGrid

\* C11: when a document mousemove or dragover finds a file drag or a gallery
\* drag and its pointer is outside the grid, the ghost state is fully reset
\* after it: no flag, ghost object or list of any drag mode survives.
C11_OutsideGridFullReset ==
  (ghostEvent.kind \in {"mousemove", "dragover"} /\ OutsideGrid /\ FoundFileOrGallery)
    => FullyReset(ghostState)

\* a mousemove outside the grid ended a gallery drag
C11_Witness ==
  /\ ghostEvent.kind = "mousemove" /\ OutsideGrid
  /\ ghostEvent.wasGallery /\ ~ghostEvent.wasFile
  /\ ghostEvent.resets = 1
  /\ FullyReset(ghostState)

\* C12: after a drop that found a file drag or a gallery drag the ghost state
\* is fully reset, whether the grid's handleDrop did not run, accepted no
\* file, is still uploading, placed its overlays or failed.
C12_DropAlwaysResets ==
  (ghostEvent.kind = "drop" /\ FoundFileOrGallery) => FullyReset(ghostState)

\* a drop ended a gallery drag and its placement failed afterwards
C12_Witness ==
  /\ ghostEvent.kind = "drop" /\ ghostEvent.placement = "failed"
  /\ ghostEvent.wasGallery /\ ~ghostEvent.wasFile
  /\ FullyReset(ghostState)

Answered == compat.answered /\ compat.type1 \in Kinds /\ compat.type2 \in Kinds

ImageFamily == {"image", "imageUrl"}

\* C14: over video, audio, image, imageUrl, text and animation the answer is
\* false for two kinds of different families among video, audio and the image
\* family, false for (video, video) and (audio, audio), true for two kinds of
\* the image family, true for (text, text), and false for text with any kind
\* other than text, in either order.
C14_PolicyTable ==
  Answered =>
    LET t1 == compat.type1
        t2 == compat.type2
        Media == {"video", "audio"} \cup ImageFamily
    IN /\ (t1 \in Media /\ t2 \in Media /\ ~(t1 \in ImageFamily /\ t2 \in ImageFamily))
            => compat.result = FALSE
       /\ (t1 \in ImageFamily /\ t2 \in ImageFamily) => compat.result = TRUE
       /\ (t1 = "text" /\ t2 = "text") => compat.result = TRUE
       /\ ((t1 = "text") # (t2 = "text")) => compat.result = FALSE

\* two videos were asked about and found incompatible
C14_Witness ==
  /\ Answered /\ compat.type1 = "video" /\ compat.type2 = "video"
  /\ compat.result = FALSE

\* one of the two kinds asked about is animation
WithAnimation == compat.type1 = "animation" \/ compat.type2 = "animation"

\* C15 as stated: animation is compatible with every kind of the table, in
\* either order.
C15_Stated ==
  (Answered /\ WithAnimation) => compat.result = TRUE

\* C15: animation is compatible with video, audio, image, imageUrl and
\* animation, in either order, and incompatible with text, in either order.
C15_AnimationExceptText ==
  (Answered /\ WithAnimation) =>
    compat.result = ("text" \notin {compat.type1, compat.type2})

\* text and animation were asked about and found incompatible
C15_Witness ==
  /\ Answered /\ compat.type1 = "animation" /\ compat.type2 = "text"
  /\ compat.result = FALSE

(***************************************************************************)
(* Properties of the rows and of the intake of a drop.                     *)
(***************************************************************************)
\* C16: any two overlays the drops placed on one row are of kinds that
\* areTypesCompatible accepts together.
C16_RowsCompatible ==
  \A i, j \in DOMAIN overlays :
    (i # j /\ overlays[i].row = overlays[j].row) =>
      areTypesCompatible(overlays[i].kind, overlays[j].kind)

\* C17: every file of a readable drop that matches neither a media MIME type
\* nor a media extension is reported to the user, also when the drop holds
\* media files as well.
C17_NonMediaReported ==
  (intake.readable /\ intake.nonMedia > 0) => intake.unreported = 0

\* the last drop held files, and none of them was a media file
NoMediaDrop == intake.files > 0 /\ intake.readable /\ intake.nonMedia = intake.files

\* C18: a drop without any media file ends with the unsupported-type
\* rejection alone: no file is accepted or processed, no upload is in flight,
\* and the overlays and the row count are what they were before the drop.
C18_NoMediaRejected ==
  NoMediaDrop =>
    /\ batchToasts = {"unsupported_file_type"}
    /\ pc = "idle" /\ accepted = << >> /\ log = << >>
    /\ inflight = 0
    /\ Len(overlays) = intake.overlays
    /\ maxRows = intake.rows

\* a drop of one non-media file on a timeline that already holds overlays on
\* more than the initial row
C18_Witness ==
  /\ NoMediaDrop /\ intake.files = 1
  /\ batchToasts = {"unsupported_file_type"}
  /\ intake.overlays > 0 /\ Len(overlays) = intake.overlays
  /\ intake.rows > InitialMaxRows /\ maxRows = intake.rows

\* C19: a file whose upload ended as canceled gets no user-facing error.
C19_CanceledIsSilent ==
  (Ended /\ last.upload = "canceled") => ~Reported(last)

(***************************************************************************)
(* Properties of useUploadProgress.                                        *)
(***************************************************************************)
\* a call of upload() has just ended, and which call
JustSettled == hook.lastOp.kind = "settled"
SettledCall == hook.calls[hook.lastOp.id]

\* the call that just ended threw the outcome of its request: canceled exactly
\* when its controller was aborted, and lastError holds that outcome
ThrownAsClaimed ==
  SettledCall.state = "thrown" =>
    /\ SettledCall.thrown # {}
    /\ \A w \in SettledCall.thrown : w.canceled = SettledCall.aborted
    /\ hook.lastError = SettledCall.thrown

\* C20 as stated: an aborted upload throws an outcome with canceled = true,
\* every other failure one with canceled = false, lastError holds it, and
\* after any outcome isUploading is false and the stored controller is null.
C20_Stated ==
  JustSettled =>
    /\ ThrownAsClaimed
    /\ hook.isUploading = FALSE
    /\ hook.controllerRef = 0

\* C20: an aborted upload throws an outcome with canceled = true, every other
\* failure one with canceled = false, and lastError holds it; after any
\* outcome of a request isUploading is false and the stored controller is
\* null; after an upload answered by the development mock isUploading is
\* false and the stored controller, if any, is still that of a request in
\* flight.
C20_OutcomeAndCleanup ==
  JustSettled =>
    /\ ThrownAsClaimed
    /\ hook.isUploading = FALSE
    /\ SettledCall.path = "network" => hook.controllerRef = 0
    /\ SettledCall.path = "mock" =>
         /\ SettledCall.state = "returned"
         /\ hook.controllerRef # 0 =>
              hook.calls[hook.controllerRef].state = "inflight"

\* an aborted request ended as canceled while the request of another call is
\* still in flight
C20_Witness ==
  /\ JustSettled /\ SettledCall.path = "network"
  /\ SettledCall.state = "thrown" /\ SettledCall.aborted
  /\ hook.lastError = {wrapped(ErrCanceled)}
  /\ ~hook.isUploading /\ hook.controllerRef = 0
  /\ \E id \in UploadIds : hook.calls[id].state = "inflight"

\* the calls of upload() whose request is in flight
InFlight == { id \in UploadIds : hook.calls[id].state = "inflight" }

\* C21: when cancel() is called while a request is in flight, a request in
\* flight has been aborted by it (and so settles as canceled), also when two
\* calls of upload() overlapped and one of them settled before the cancel.
C21_CancelAbortsInFlight ==
  (hook.lastOp.kind = "cancel" /\ InFlight # {}) =>
    \E id \in InFlight : hook.calls[id].aborted

(***************************************************************************)
(* Properties of the ruler.                                                *)
(***************************************************************************)
\* the marker m stands at t seconds, at p percent
AtSecond(m, t) == m.time.num = t * m.time.den
AtPercent(m, p) == m.position.num = p * m.position.den

\* the ruler was rendered for one minute at 30 fps and scale 1
MinuteAtScaleOne ==
  /\ ruler.rendered /\ ruler.maxTime = 60000 /\ ruler.fps = 30
  /\ ruler.scale = ScaleUnit

\* C22 as stated: for maxTime = 60000, fps = 30 and scale = 1 the markers are
\* exactly those at 0 s, 30 s and 60 s, at 0, 50 and 100 percent.
C22_Stated ==
  MinuteAtScaleOne =>
    /\ Len(ruler.markers) = 3
    /\ AtSecond(ruler.markers[1], 0) /\ AtPercent(ruler.markers[1], 0)
    /\ AtSecond(ruler.markers[2], 30) /\ AtPercent(ruler.markers[2], 50)
    /\ AtSecond(ruler.markers[3], 60) /\ AtPercent(ruler.markers[3], 100)

\* C22: for maxTime = 60000, fps = 30 and scale = 1 the markers are exactly
\* those at 0 s and 60 s, at 0 and 100 percent.
C22_MinuteMarkers ==
  MinuteAtScaleOne =>
    /\ Len(ruler.markers) = 2
    /\ AtSecond(ruler.markers[1], 0) /\ AtPercent(ruler.markers[1], 0)
    /\ AtSecond(ruler.markers[2], 60) /\ AtPercent(ruler.markers[2], 100)

\* that render happened, and its last marker stands at the end of the minute
C22_Witness ==
  /\ MinuteAtScaleOne
  /\ Len(ruler.markers) = 2
  /\ ruler.markers[2].timeMs = Frac(60000, 1)
  /\ ~ruler.markers[2].isFrame

\* the ruler was rendered for a timeline that has a duration
Rendered == ruler.rendered /\ ruler.maxTime > 0

\* the fps the render used
RulerFps == IF ruler.fps = 0 THEN 30 ELSE ruler.fps

\* the markers are frame markers at the frames 0, step, 2 * step, ..., all of
\* them up to ceil(maxTimeSeconds * fps)
EveryFrames(step) ==
  LET n == Len(ruler.markers)
  IN /\ n > 0
     /\ \A k \in 1..n :
          /\ ruler.markers[k].isFrame
          /\ ruler.markers[k].frame = {(k - 1) * step}
          /\ ruler.markers[k].time = Frac((k - 1) * step, RulerFps)
     /\ (n - 1) * step * 1000 < ruler.maxTime * RulerFps + 1000
     /\ n * step * 1000 >= ruler.maxTime * RulerFps + 1000

\* the markers are time markers at the seconds 0, step, 2 * step, ..., all of
\* them up to maxTimeSeconds
EverySeconds(step) ==
  LET n == Len(ruler.markers)
  IN /\ n > 0
     /\ \A k \in 1..n :
          /\ ~ruler.markers[k].isFrame
          /\ ruler.markers[k].frame = {}
          /\ ruler.markers[k].time = Frac((k - 1) * step, 1)
     /\ (n - 1) * step * 1000 <= ruler.maxTime
     /\ n * step * 1000 > ruler.maxTime

\* scale lies in the range lo < scale <= hi
ScaleIn(lo, hi) == ruler.scale > lo * ScaleUnit /\ ruler.scale <= hi * ScaleUnit

\* C30: the granularity follows the table: above 30 every frame, above 20
\* every 5 frames, above 15 every 10 frames, above 10 every second, above 5
\* every 5 s, above 2 every 10 s, above 1 every 30 s, else every 60 s; the
\* frame modes give the frames 0..ceil(maxTimeSeconds * fps) and the time
\* modes the seconds 0..maxTimeSeconds, increasing from a marker at time 0.
C30_GranularityTable ==
  Rendered =>
    /\ ruler.scale > 30 * ScaleUnit => EveryFrames(1)
    /\ ScaleIn(20, 30) => EveryFrames(5)
    /\ ScaleIn(15, 20) => EveryFrames(10)
    /\ ScaleIn(10, 15) => EverySeconds(1)
    /\ ScaleIn(5, 10) => EverySeconds(5)
    /\ ScaleIn(2, 5) => EverySeconds(10)
    /\ ScaleIn(1, 2) => EverySeconds(30)
    /\ ruler.scale <= 1 * ScaleUnit => EverySeconds(60)

\* a render at scale 30, a threshold: every 5 frames, up to the frame after
\* the end of a timeline whose duration is no whole number of frames
C30_Witness ==
  /\ Rendered /\ ruler.scale = 30 * ScaleUnit
  /\ ruler.maxTime = 1010 /\ ruler.fps = 30
  /\ Len(ruler.markers) = 7
  /\ ruler.markers[7].frame = {30}

(***************************************************************************)
(* Further properties of the drop pipeline.                                *)
(***************************************************************************)
\* C23: no step of the pipeline lowers store.maxRows: whenever a step changes
\* it, the new value is strictly greater than the old one, also in drops with
\* failed uploads and failed overlay creations.
C23_MaxRowsGrows ==
  [][maxRows' # maxRows => maxRows' > maxRows]_vars

\* the row count has grown, and the file handled last failed at the creation
\* of its overlay after its row had been counted
C23_Witness ==
  /\ Ended /\ last.failed = "create"
  /\ maxRows > InitialMaxRows
  /\ maxRows > intake.rows

(***************************************************************************)
(* Further properties of the ghost state.                                  *)
(***************************************************************************)
\* this step is a document mousemove or dragover whose pointer is outside the
\* grid, handled while neither a file drag nor a gallery drag is active
OutsideElementDragStep ==
  /\ ghostEvent'.kind \in {"mousemove", "dragover"}
  /\ ghostEvent'.grid /\ ~ghostEvent'.overGrid
  /\ ~ghostState.isFileDragging /\ ~ghostState.isGalleryDragging

\* C24: such an event nulls ghostElement when isDragging, empties
\* multiGhostElements when isMultiDragging, and leaves every other field as
\* it was: the mode flags, isResizing and resizeGhostElement included.
C24_PartialClearOnly ==
  [][OutsideElementDragStep =>
       ghostState' =
         [ghostState EXCEPT
            !.ghostElement = IF ghostState.isDragging THEN {} ELSE @,
            !.multiGhostElements = IF ghostState.isMultiDragging THEN << >> ELSE @]]_vars

\* after a mousemove outside the grid: an element drag and a multi drag
\* without their ghosts, and a resize with its ghost
C24_Witness ==
  /\ ghostEvent.kind = "mousemove" /\ OutsideGrid /\ ~FoundFileOrGallery
  /\ ghostState.isDragging /\ ghostState.ghostElement = {}
  /\ ghostState.isMultiDragging /\ ghostState.multiGhostElements = << >>
  /\ ghostState.isResizing /\ ghostState.resizeGhostElement # {}
  /\ ghostState.alignmentLines # << >>

\* the drag-mode flags that are true in g
ModeFlags(g) ==
  { m \in DragModes :
      \/ m = "dragging" /\ g.isDragging
      \/ m = "resizing" /\ g.isResizing
      \/ m = "multiDragging" /\ g.isMultiDragging
      \/ m = "galleryDragging" /\ g.isGalleryDragging
      \/ m = "fileDragging" /\ g.isFileDragging }

\* C25: no mousemove or dragover whose pointer is outside the grid leaves two
\* drag-mode flags true: a state with several flags is fully reset by it.
C25_MixedStateReset ==
  (ghostEvent.kind \in {"mousemove", "dragover"} /\ OutsideGrid)
    => Cardinality(ModeFlags(ghostState)) <= 1

\* the kind inferred from the MIME class of the dragged item
InferredKind(fileType) ==
  CASE fileType = "audio" -> "audio"
    [] fileType = "video" -> "video"
    [] OTHER -> "imageUrl"

\* the last event was a dragover over the grid during a file drag, with files,
\* and not over a row element
FileDragOverGrid ==
  /\ ghostEvent.kind = "dragover"
  /\ \E h \in ghostEvent.hover : h.hasFiles /\ ~h.overRow

\* C26: after such a dragover the file ghost is on the hovered row, and it is
\* flagged incompatible exactly when that row has a first overlay whose kind
\* areTypesCompatible rejects with the kind inferred from the item's MIME
\* type; above an empty row it is not flagged.
C26_FileGhostFlag ==
  FileDragOverGrid =>
    \A h \in ghostEvent.hover :
      /\ ghostState.isFileDragging
      /\ \E ghost \in ghostState.fileGhostElement :
           /\ ghostState.fileGhostElement = {ghost}
           /\ ghost.row = h.targetRow
           /\ ghost.isIncompatible =
                (h.rowType # "none" /\ ~areTypesCompatible(h.rowType, InferredKind(h.fileType)))
           /\ h.rowType = "none" => ~ghost.isIncompatible

\* a video file above row 1, which holds text: the ghost is flagged
C26_Witness ==
  /\ FileDragOverGrid
  /\ \E h \in ghostEvent.hover : h.rowType = "text" /\ h.fileType = "video" /\ h.targetRow = 1
  /\ \E ghost \in ghostState.fileGhostElement : ghost.isIncompatible /\ ghost.row = 1

\* the toasts of the k-th file of the current drop
ToastsOf(k) == { log[k][t] : t \in DOMAIN log[k] }

\* C27: a file that raised 'video added, audio failed' has its video overlay
\* and no audio overlay, for the rest of the drop; when the companion's
\* creation fails that message is raised for the file, not the upload
\* failure message, and the loop goes on to the next file.
C27_CompanionFailureKeepsVideo ==
  /\ \A k \in DOMAIN log :
       "error_video_added_audio_failed" \in ToastsOf(k) =>
         /\ Cardinality(OfKind(FileOverlays(batchNo, k), "video")) = 1
         /\ OfKind(FileOverlays(batchNo, k), "audio") = {}
  /\ (Ended /\ last.failed = "companion") =>
       /\ "error_video_added_audio_failed" \in ToastsOf(fileNo)
       /\ "error_failed_to_upload" \notin ToastsOf(fileNo)
       /\ BatchGoesOn

\* the companion of the first file failed, and the second file of the drop
\* was placed after it
C27_Witness ==
  /\ Ended /\ Len(log) >= 2
  /\ "error_video_added_audio_failed" \in ToastsOf(1)
  /\ Cardinality(OfKind(FileOverlays(batchNo, 1), "video")) = 1
  /\ ToastsOf(2) = {"success"}
  /\ FileOverlays(batchNo, 2) # {}

(***************************************************************************)
(* Properties of an audio file's duration.                                 *)
(***************************************************************************)
\* durationMs as lines 197-208 assign it
AudioDurationAsCoded(p) ==
  p.durationMs # {} =>
    IF p.upDur # {} THEN p.durationMs = {(CHOOSE d \in p.upDur : TRUE) * 1000}
    ELSE IF p.promise = "resolved"
      THEN p.durationMs = {Max2(AudioMinMs, (CHOOSE v \in p.value : TRUE) * 1000)}
      ELSE p.promise = "rejected" /\ p.durationMs = {AudioFallbackMs}
AudioDurationsAsCoded == \A i \in DOMAIN audioProbe : AudioDurationAsCoded(audioProbe[i])

\* C28 as stated: an audio overlay's duration is the server's duration times
\* 1000 when there is a numeric one, else max(1000, probed ms) when the local
\* probe resolves within its 5-second timeout, else 5000; and once the
\* 5-second timer of a probe has fired, its promise is settled.
C28_Stated ==
  \A i \in DOMAIN audioProbe :
    LET p == audioProbe[i] IN
      /\ p.durationMs # {} =>
           IF p.upDur # {} THEN p.durationMs = {(CHOOSE d \in p.upDur : TRUE) * 1000}
           ELSE IF p.promise = "resolved" /\ ~p.late
             THEN p.durationMs = {Max2(AudioMinMs, (CHOOSE v \in p.value : TRUE) * 1000)}
             ELSE p.durationMs = {AudioFallbackMs}
      /\ p.timeoutFired => p.promise \in {"resolved", "rejected"}

(***************************************************************************)
(* Properties of the probe's detection passes.                             *)
(***************************************************************************)
\* detectAudioAndResolve gets past its first line at most once in a call
SinglePass == probe.passes <= 1

\* C29 as stated: after metadata with a known positive duration the probe can
\* take more than one detection pass before it resolves: while the 200/300 ms
\* re-check that onLoaded scheduled is pending the promise is not settled yet,
\* so a signal arriving before the re-check can still enter hasAudio.
C29_Stated ==
  probe.recheckTimers > 0 => ~probe.resolved /\ probe.promise = "pending"

(***************************************************************************)
(* Further properties of the ruler.                                        *)
(***************************************************************************)
\* the time between each marker and the next one is the fraction step
SpacedBy(step) ==
  \A k \in 1..(Len(ruler.markers) - 1) :
    LET a == ruler.markers[k].time
        b == ruler.markers[k + 1].time
    IN (b.num * a.den - a.num * b.den) * step.den = step.num * (a.den * b.den)

\* C31 as stated: for 20 < scale <= 30 the time between consecutive markers
\* is the coarser of 5 frames and 0.1 s, for 15 < scale <= 20 the coarser of
\* 10 frames and 0.2 s, whatever the fps is.
C31_Stated ==
  Rendered =>
    /\ ScaleIn(20, 30) => SpacedBy(FracMax(Frac(5, RulerFps), Frac(1, 10)))
    /\ ScaleIn(15, 20) => SpacedBy(FracMax(Frac(10, RulerFps), Frac(2, 10)))

\* a position in percent lies in lo..hi
PercentIn(position, lo, hi) ==
  /\ position.num >= lo * position.den
  /\ position.num <= hi * position.den

LeftDocument == ghostEvent.kind = "dragleave" /\ ~ghostEvent.overGrid

\* C33 as stated: when the pointer leaves the whole document while a file
\* drag or a gallery drag is active, the ghost state is fully reset: neither
\* the file-drag nor the gallery-drag flag is true after it.
C33_Stated ==
  (LeftDocument /\ FoundFileOrGallery) =>
    /\ FullyReset(ghostState)
    /\ ~ghostState.isFileDragging /\ ~ghostState.isGalleryDragging

====
